---- MODULE Spec2Model ----
(***************************************************************************)
(* Model of the OpenAPI -> IR converter of retcon                          *)
(* (src/retcon/schema/converter.py).                                       *)
(*                                                                         *)
(* Conventions of the encoding                                             *)
(*   - an optional value (Python `X | None`) is a sequence of length 0 or  *)
(*     1: <<>> is None, <<v>> is the value v;                              *)
(*   - a Python str whose characters the code inspects (schema names,      *)
(*     $ref strings, paths, methods, enum literals) is a sequence of       *)
(*     one-character strings; a str that is only compared for equality     *)
(*     (type names, locations, media types, property names) is a TLA+      *)
(*     string;                                                             *)
(*   - a Python dict is the sequence of its items in insertion order, each *)
(*     item a record [key, value]; keys are pairwise distinct;             *)
(*   - a Python set is a TLA+ set; iterating it yields its elements in an  *)
(*     arbitrary order (the hash order), chosen by the caller with \E.     *)
(***************************************************************************)
EXTENDS Integers, Sequences, FiniteSets, TLC

VARIABLES document, results, pipeline, walk

vars == <<document, results, pipeline, walk>>

\* ------------------------------------------------------------------ bounds
MaxSchemas == 2
MaxParams == 3
MaxPaths == 2
MaxRuns == 2
MaxTypes == 2
MaxLiterals == 3
MaxMedia == 2
MaxNodes == 2
MaxFactories == 2
MaxHandlers == 2
MaxTags == 2
MaxItems == 2

\* ----------------------------------------------------------- Python basics
None == <<>>
Some(v) == <<v>>

\* bool(x) of an optional str / list / dict: None and the empty value are falsy
Truthy(opt) == opt # <<>> /\ opt[1] # <<>>

\* bool(x) of an optional str held as a TLA+ string
TruthyStr(opt) == opt # <<>> /\ opt[1] # ""

\* `x or []`, `x or {}`
OrEmpty(opt) == IF opt = <<>> THEN <<>> ELSE opt[1]

Range(seq) == {seq[i] : i \in DOMAIN seq}

RECURSIVE Concat(_)
Concat(seqs) == IF seqs = <<>> THEN <<>> ELSE Head(seqs) \o Concat(Tail(seqs))

\* dict helpers
DictKeys(d) == [i \in DOMAIN d |-> d[i].key]
DictHas(d, k) == \E i \in DOMAIN d : d[i].key = k
DictGet(d, k) == d[CHOOSE i \in DOMAIN d : d[i].key = k].value
Item(k, v) == [key |-> k, value |-> v]

\* all enumerations of a finite set without repetition (iteration orders of a set)
SetOrders(S) ==
    {f \in [1..Cardinality(S) -> S] : \A i, j \in 1..Cardinality(S) : i # j => f[i] # f[j]}

\* ------------------------------------------------------------- characters
Digits == <<"0", "1", "2", "3", "4", "5", "6", "7", "8", "9">>
UpperLetters == <<"A", "B", "C", "D", "E", "F", "G", "H", "I", "J", "K", "L", "M",
                  "N", "O", "P", "Q", "R", "S", "T", "U", "V", "W", "X", "Y", "Z">>
LowerLetters == <<"a", "b", "c", "d", "e", "f", "g", "h", "i", "j", "k", "l", "m",
                  "n", "o", "p", "q", "r", "s", "t", "u", "v", "w", "x", "y", "z">>

IndexOf(seq, c) == CHOOSE i \in DOMAIN seq : seq[i] = c

IsDigit(c) == c \in Range(Digits)
IsUpper(c) == c \in Range(UpperLetters)
IsLower(c) == c \in Range(LowerLetters)

\* ord(c) for the ASCII characters the model uses
Ord(c) ==
    IF IsDigit(c) THEN 47 + IndexOf(Digits, c)
    ELSE IF IsUpper(c) THEN 64 + IndexOf(UpperLetters, c)
    ELSE IF IsLower(c) THEN 96 + IndexOf(LowerLetters, c)
    ELSE CASE c = " " -> 32
           [] c = "#" -> 35
           [] c = "$" -> 36
           [] c = "-" -> 45
           [] c = "." -> 46
           [] c = "/" -> 47
           [] c = "_" -> 95
           [] c = "{" -> 123
           [] c = "}" -> 125

\* str.__lt__: lexicographic by code point, a proper prefix is smaller
RECURSIVE StrLess(_, _)
StrLess(a, b) ==
    IF b = <<>> THEN FALSE
    ELSE IF a = <<>> THEN TRUE
    ELSE IF Head(a) # Head(b) THEN Ord(Head(a)) < Ord(Head(b))
    ELSE StrLess(Tail(a), Tail(b))

\* str.startswith
StartsWith(s, prefix) ==
    Len(s) >= Len(prefix) /\ SubSeq(s, 1, Len(prefix)) = prefix

\* s[n:]
DropPrefix(s, n) == SubSeq(s, n + 1, Len(s))

IsAlnum(c) == IsDigit(c) \/ IsUpper(c) \/ IsLower(c)

UpperChar(c) == IF IsLower(c) THEN UpperLetters[IndexOf(LowerLetters, c)] ELSE c
LowerChar(c) == IF IsUpper(c) THEN LowerLetters[IndexOf(UpperLetters, c)] ELSE c

\* str.upper, str.lower
Upper(s) == [i \in DOMAIN s |-> UpperChar(s[i])]
Lower(s) == [i \in DOMAIN s |-> LowerChar(s[i])]

\* re.sub(r"[^0-9A-Za-z<extra>]+", "_", s): every maximal run of characters
\* that are neither alphanumeric nor in `extra` becomes one "_"
RECURSIVE ReSubRuns(_, _, _)
ReSubRuns(s, extra, inRun) ==
    IF s = <<>> THEN <<>>
    ELSE IF IsAlnum(Head(s)) \/ Head(s) \in extra
         THEN <<Head(s)>> \o ReSubRuns(Tail(s), extra, FALSE)
    ELSE IF inRun THEN ReSubRuns(Tail(s), extra, TRUE)
    ELSE <<"_">> \o ReSubRuns(Tail(s), extra, TRUE)

RECURSIVE LStrip(_, _)
LStrip(s, c) == IF s # <<>> /\ Head(s) = c THEN LStrip(Tail(s), c) ELSE s

RECURSIVE RStrip(_, _)
RStrip(s, c) ==
    IF s # <<>> /\ s[Len(s)] = c THEN RStrip(SubSeq(s, 1, Len(s) - 1), c) ELSE s

\* str.strip(c)
Strip(s, c) == RStrip(LStrip(s, c), c)

\* s.replace(c, "")
Remove(s, c) == SelectSeq(s, LAMBDA x : x # c)

\* str(n) for a natural number
RECURSIVE IntToStr(_)
IntToStr(n) ==
    IF n < 10 THEN <<Digits[n + 1]>> ELSE IntToStr(n \div 10) \o <<Digits[(n % 10) + 1]>>

\* insert x into an ascending sequence, after the entries that are not greater
RECURSIVE InsertSorted(_, _)
InsertSorted(seq, x) ==
    IF seq = <<>> THEN <<x>>
    ELSE IF StrLess(x, Head(seq)) THEN <<x>> \o seq
    ELSE <<Head(seq)>> \o InsertSorted(Tail(seq), x)

RECURSIVE SortFrom(_, _)
SortFrom(acc, rest) ==
    IF rest = <<>> THEN acc ELSE SortFrom(InsertSorted(acc, Head(rest)), Tail(rest))

\* a sorted() that forgets to sort: returns the iteration order it was given
sorted_unsorted(iter) == iter

\* sorted(iterable) over str elements
sorted(iter) == SortFrom(<<>>, iter)

\* ------------------------------------------------- JSON literals (typing.Any)
JStr(s) == [t |-> "str", s |-> s, n |-> 0, b |-> FALSE]
JInt(n) == [t |-> "int", s |-> <<>>, n |-> n, b |-> FALSE]
JFloat(n) == [t |-> "float", s |-> <<>>, n |-> n, b |-> FALSE]
JBool(b) == [t |-> "bool", s |-> <<>>, n |-> 0, b |-> b]
JNull == [t |-> "null", s |-> <<>>, n |-> 0, b |-> FALSE]
JList == [t |-> "list", s |-> <<>>, n |-> 0, b |-> FALSE]

\* isinstance(value, (str, int, float, bool))
IsScalar(value) == value.t \in {"str", "int", "float", "bool"}

\* ------------------------------------------- decoded document (oas3x0 structs)
\* Schema Object; every field at its struct default
Schema ==
    [ref |-> None, type |-> None, nullable |-> None, enum |-> None,
     properties |-> None, required |-> None, additionalProperties |-> None,
     items |-> None, oneOf |-> None, anyOf |-> None, allOf |-> None,
     format |-> None, default |-> None, description |-> None]

\* `type: str` and `type: list[str]`
TypeStr(name) == [isList |-> FALSE, names |-> <<name>>]
TypeList(names) == [isList |-> TRUE, names |-> names]

\* `additionalProperties: Schema | bool`
AdditionalBool(b) == [isBool |-> TRUE, b |-> b, schema |-> None]
AdditionalSchema(s) == [isBool |-> FALSE, b |-> FALSE, schema |-> Some(s)]

MediaType == [schema |-> None]

RawParameter ==
    [ref |-> None, name |-> None, in_ |-> None, description |-> None, required |-> FALSE,
     schema |-> None, content |-> None]

RawRequestBody == [ref |-> None, description |-> None, content |-> None, required |-> FALSE]

RawResponse == [ref |-> None, description |-> None, content |-> None]

RawOperation ==
    [tags |-> None, summary |-> None, description |-> None, operationId |-> None,
     parameters |-> None, requestBody |-> None, responses |-> None, deprecated |-> FALSE]

\* Path Item Object.  `slots` holds the operations declared under the fixed
\* method fields, in the order the source declares them; the converter reads
\* them by field name only (PathItemGet).
PathItem ==
    [description |-> None, slots |-> <<>>, additionalOperations |-> None, parameters |-> None]

Components == [schemas |-> None]

Info == [title |-> "t", version |-> "1", description |-> None]

OpenAPI == [info |-> Info, paths |-> None, webhooks |-> None, components |-> None]

\* ------------------------------------------------------ IR (schema/types.py)
TypeRef(kind) ==
    [kind |-> kind, nullable |-> FALSE, format |-> None, item_type |-> None,
     value_type |-> None, variants |-> <<>>, name |-> <<>>]

AnyType(nullable) == [TypeRef("Any") EXCEPT !.nullable = nullable]
BooleanType(nullable) == [TypeRef("Boolean") EXCEPT !.nullable = nullable]
ScalarType(type_name, format, nullable) ==
    [TypeRef(CASE type_name = "string" -> "String"
               [] type_name = "integer" -> "Integer"
               [] type_name = "number" -> "Number")
        EXCEPT !.format = format, !.nullable = nullable]
ArrayType(item_type, nullable) ==
    [TypeRef("Array") EXCEPT !.item_type = Some(item_type), !.nullable = nullable]
MapType(value_type, nullable) ==
    [TypeRef("Map") EXCEPT !.value_type = Some(value_type), !.nullable = nullable]
UnionType(variants, nullable) ==
    [TypeRef("Union") EXCEPT !.variants = variants, !.nullable = nullable]
ModelRef(name) == [TypeRef("ModelRef") EXCEPT !.name = name]
EnumRef(name) == [TypeRef("EnumRef") EXCEPT !.name = name]

_ConversionContext(enum_names, model_names) ==
    [enum_names |-> enum_names, model_names |-> model_names]

APISchema(title, version, description) ==
    [title |-> title, version |-> version, description |-> description,
     models |-> <<>>, enums |-> <<>>, endpoints |-> <<>>, webhooks |-> <<>>,
     custom_nodes |-> <<>>]

\* ------------------------------------------------------ converter constants
_OPERATION_FIELDS ==
    << <<"g", "e", "t">>, <<"p", "u", "t">>, <<"p", "o", "s", "t">>,
       <<"d", "e", "l", "e", "t", "e">>, <<"o", "p", "t", "i", "o", "n", "s">>,
       <<"h", "e", "a", "d">>, <<"p", "a", "t", "c", "h">>, <<"t", "r", "a", "c", "e">>,
       <<"q", "u", "e", "r", "y">> >>

_PATH_OPERATIONS_PREFIX == <<"#", "/", "p", "a", "t", "h", "s", "/">>

_SCHEMA_REF_PREFIX ==
    <<"#", "/", "c", "o", "m", "p", "o", "n", "e", "n", "t", "s", "/",
      "s", "c", "h", "e", "m", "a", "s", "/">>

\* ------------------------------------------------------- schema predicates
\* an extraction that takes nullability from the `nullable` keyword alone
_extract_nullable_type_flag_only(schema) ==
    LET nullable == schema.nullable = Some(TRUE)
        raw_type == schema.type
    IN  IF raw_type = None THEN <<nullable, None>>
        ELSE IF raw_type[1].isList
             THEN LET names == raw_type[1].names
                      non_null_types == SelectSeq(names, LAMBDA v : v # "null")
                  IN  << nullable,
                         IF non_null_types # <<>> THEN Some(non_null_types[1]) ELSE None >>
             ELSE <<nullable, Some(raw_type[1].names[1])>>

\* returns <<nullable, type_name>>, type_name an optional str
_extract_nullable_type(schema) ==
    LET nullable == schema.nullable = Some(TRUE)
        raw_type == schema.type
    IN  IF raw_type = None THEN <<nullable, None>>
        ELSE IF raw_type[1].isList
             THEN LET names == raw_type[1].names
                      non_null_types == SelectSeq(names, LAMBDA v : v # "null")
                  IN  << nullable \/ (\E i \in DOMAIN names : names[i] = "null"),
                         IF non_null_types # <<>> THEN Some(non_null_types[1]) ELSE None >>
             ELSE <<nullable, Some(raw_type[1].names[1])>>

\* an enum test that does not look at the literals' kinds
_schema_is_enum_any_literal(schema) ==
    /\ ~Truthy(schema.ref)
    /\ Truthy(schema.enum)

_schema_is_enum(schema) ==
    /\ ~Truthy(schema.ref)
    /\ Truthy(schema.enum)
    /\ \A i \in DOMAIN schema.enum[1] : IsScalar(schema.enum[1][i])

\* bool.__eq__(str): values of different types are never equal
PyBoolEqStr(flag, text) == FALSE

\* `_extract_nullable_type(schema)[0]` is the first element of the pair, the
\* nullable flag (index 1 here, tuples being 1-based)
_schema_is_model(schema) ==
    /\ ~(Truthy(schema.ref) \/ _schema_is_enum(schema))
    /\ \/ PyBoolEqStr(_extract_nullable_type(schema)[1], "object")
       \/ Truthy(schema.properties)

\* a prefix strip that keeps the whole $ref string instead of the name
_extract_schema_ref_name_whole(ref) ==
    IF StartsWith(ref, _SCHEMA_REF_PREFIX) THEN Some(ref) ELSE None

_extract_schema_ref_name(ref) ==
    IF StartsWith(ref, _SCHEMA_REF_PREFIX)
    THEN Some(DropPrefix(ref, Len(_SCHEMA_REF_PREFIX)))
    ELSE None

\* --------------------------------------------------------- type resolution
\* lines 370-376 with every local name taken for a model unless it is an enum
ResolveRef_unchecked(ref_name, context) ==
    IF Truthy(ref_name)
    THEN IF ref_name[1] \in context.enum_names THEN EnumRef(ref_name[1])
         ELSE ModelRef(ref_name[1])
    ELSE AnyType(FALSE)

\* lines 370-376: the outcome for the name extracted from a $ref
ResolveRef(ref_name, context) ==
    IF Truthy(ref_name)
    THEN IF ref_name[1] \in context.enum_names THEN EnumRef(ref_name[1])
         ELSE IF ref_name[1] \in context.model_names THEN ModelRef(ref_name[1])
         ELSE AnyType(FALSE)
    ELSE AnyType(FALSE)

\* a resolution that looks for an object before it looks for an array
ResolvePlain_object_first(schema, nullable, type_name, item_type, value_type) ==
    IF \/ type_name = Some("object")
       \/ schema.properties # None
       \/ schema.additionalProperties # None
    THEN IF schema.additionalProperties = None \/ schema.additionalProperties[1].isBool
         THEN MapType(AnyType(FALSE), nullable)
         ELSE MapType(value_type, nullable)
    ELSE IF type_name = Some("array") THEN ArrayType(item_type, nullable)
    ELSE IF type_name # None /\ type_name[1] \in {"integer", "number", "string"}
    THEN ScalarType(type_name[1], schema.format, nullable)
    ELSE IF type_name = Some("boolean") THEN BooleanType(nullable)
    ELSE AnyType(nullable)

\* lines 390-404: a schema without union variants; item_type and value_type
\* are the resolved `items` and `additionalProperties` schemas
ResolvePlain(schema, nullable, type_name, item_type, value_type) ==
    IF type_name = Some("array") THEN ArrayType(item_type, nullable)
    ELSE IF \/ type_name = Some("object")
            \/ schema.properties # None
            \/ schema.additionalProperties # None
    THEN IF schema.additionalProperties = None \/ schema.additionalProperties[1].isBool
         THEN MapType(AnyType(FALSE), nullable)
         ELSE MapType(value_type, nullable)
    ELSE IF type_name # None /\ type_name[1] \in {"integer", "number", "string"}
    THEN ScalarType(type_name[1], schema.format, nullable)
    ELSE IF type_name = Some("boolean") THEN BooleanType(nullable)
    ELSE AnyType(nullable)

\* lines 387-388
UnionOrPlain(union_variants, nullable, plain) ==
    IF union_variants # <<>> THEN UnionType(union_variants, nullable) ELSE plain

\* the keyword lists joined with allOf first
KeywordVariants_allOf_first(schema) ==
    OrEmpty(schema.allOf) \o OrEmpty(schema.oneOf) \o OrEmpty(schema.anyOf)

\* the schemas listed under oneOf, anyOf, allOf, in that order
KeywordVariants(schema) ==
    OrEmpty(schema.oneOf) \o OrEmpty(schema.anyOf) \o OrEmpty(schema.allOf)

\* `additionalProperties` when it is a schema
AdditionalOf(schema) ==
    IF schema.additionalProperties = None THEN None
    ELSE schema.additionalProperties[1].schema

RECURSIVE _to_type_ref(_, _)
RECURSIVE ResolveAll(_, _)
RECURSIVE ResolveInline(_, _, _)

\* the resolved types of a list of schemas
ResolveAll(schemas, context) ==
    [i \in DOMAIN schemas |-> _to_type_ref(Some(schemas[i]), context)]

\* lines 378-404, nt being the pair returned by _extract_nullable_type
ResolveInline(schema, nt, context) ==
    UnionOrPlain(
        ResolveAll(KeywordVariants(schema), context),
        nt[1],
        ResolvePlain(schema, nt[1], nt[2],
                     _to_type_ref(schema.items, context),
                     _to_type_ref(AdditionalOf(schema), context)))

_to_type_ref(schema_opt, context) ==
    IF schema_opt = None THEN AnyType(FALSE)
    ELSE IF schema_opt[1].ref # None
    THEN ResolveRef(_extract_schema_ref_name(schema_opt[1].ref[1]), context)
    ELSE ResolveInline(schema_opt[1], _extract_nullable_type(schema_opt[1]), context)

\* a selection that always takes the first entry
_pick_primary_media_type_first(content) ==
    IF content = <<>> THEN None
    ELSE Some(<<content[1].key, content[1].value>>)

_pick_primary_media_type(content) ==
    IF content = <<>> THEN None
    ELSE IF DictHas(content, "application/json")
    THEN Some(<<"application/json", DictGet(content, "application/json")>>)
    ELSE Some(<<content[1].key, content[1].value>>)

\* ------------------------------------------------------------------- enums
EnumValue(name, value) == [name |-> name, value |-> value]

ValuePrefix == <<"V", "A", "L", "U", "E", "_">>

\* lines 461-462
PrefixIfDigit(candidate) ==
    IF IsDigit(candidate[1]) THEN ValuePrefix \o candidate ELSE candidate

\* lines 458-459
DefaultIfEmpty(candidate, index) ==
    IF candidate = <<>> THEN ValuePrefix \o IntToStr(index) ELSE candidate

\* the text str() gives for a literal
LiteralText(value) ==
    CASE value.t = "str" -> value.s
      [] value.t = "int" -> IntToStr(value.n)
      [] value.t = "float" -> IntToStr(value.n) \o <<".", "0">>
      [] value.t = "bool" -> IF value.b THEN <<"T", "r", "u", "e">>
                                        ELSE <<"F", "a", "l", "s", "e">>
      [] OTHER -> <<>>

\* a derivation that starts from the text of the literal, of whatever type
_to_enum_member_name_of_text(value, index) ==
    PrefixIfDigit(
        DefaultIfEmpty(Upper(Strip(ReSubRuns(LiteralText(value), {}, FALSE), "_")), index))

\* `index` is the 0-based position of the literal
_to_enum_member_name(value, index) ==
    PrefixIfDigit(
        DefaultIfEmpty(
            IF value.t = "str" THEN Upper(Strip(ReSubRuns(value.s, {}, FALSE), "_"))
            ELSE <<>>,
            index))

\* a collision handling that appends the suffix once
Uniquify_once(member_name, used_names, index) ==
    IF member_name \in used_names THEN member_name \o <<"_">> \o IntToStr(index)
    ELSE member_name

\* the `while member_name in used_names` loop
RECURSIVE Uniquify(_, _, _)
Uniquify(member_name, used_names, index) ==
    IF member_name \in used_names
    THEN Uniquify(member_name \o <<"_">> \o IntToStr(index), used_names, index)
    ELSE member_name

RECURSIVE EnumMembers(_, _, _)
EnumMembers(raw_values, index, members) ==
    IF index >= Len(raw_values) THEN members
    ELSE EnumMembers(
            raw_values, index + 1,
            Append(members,
                   EnumValue(Uniquify(_to_enum_member_name(raw_values[index + 1], index),
                                      {members[i].name : i \in DOMAIN members}, index),
                             raw_values[index + 1])))

_convert_enum(name, schema) ==
    [name |-> name,
     values |-> EnumMembers(OrEmpty(schema.enum), 0, <<>>),
     description |-> schema.description]

\* ------------------------------------------------------------------ models
\* a default that is kept only when it is truthy
FieldDefault_truthy(field_default) ==
    IF /\ field_default # None
       /\ field_default[1] \notin {JNull, JInt(0), JFloat(0), JBool(FALSE), JStr(<<>>), JList}
    THEN field_default ELSE None

\* lines 146-154; Field.default: None is the UNSET marker, Some(v) a literal
FieldDefault(field_default) ==
    IF field_default # None /\ field_default[1] # JNull THEN field_default ELSE None

_convert_model(name, schema, context) ==
    [name |-> name,
     fields |->
        [i \in DOMAIN OrEmpty(schema.properties) |->
            [name |-> schema.properties[1][i].key,
             type |-> _to_type_ref(Some(schema.properties[1][i].value), context),
             required |-> schema.properties[1][i].key \in Range(OrEmpty(schema.required)),
             description |-> schema.properties[1][i].value.description,
             default |-> FieldDefault(schema.properties[1][i].value.default)]],
     description |-> schema.description]

\* -------------------------------------------------------------- parameters
\* a type taken from the schema alone
ParameterType_schema_only(schema_type, media_type, context) == schema_type

\* lines 301-305: the schema's type, or the primary media type's when that is Any
ParameterType(schema_type, media_type, context) ==
    IF schema_type.kind = "Any" /\ media_type # None
    THEN _to_type_ref(media_type[1][2].schema, context)
    ELSE schema_type

\* a conversion that keeps the declared `required` flag for every location
_convert_parameter_declared_required(parameter, context) ==
    IF Truthy(parameter.ref) THEN None
    ELSE IF ~TruthyStr(parameter.name) \/ ~TruthyStr(parameter.in_) THEN None
    ELSE Some([name |-> parameter.name[1],
               location |-> parameter.in_[1],
               type |-> ParameterType(_to_type_ref(parameter.schema, context),
                                      _pick_primary_media_type(OrEmpty(parameter.content)),
                                      context),
               required |-> parameter.required,
               description |-> parameter.description])

_convert_parameter(parameter, context) ==
    IF Truthy(parameter.ref) THEN None
    ELSE IF ~TruthyStr(parameter.name) \/ ~TruthyStr(parameter.in_) THEN None
    ELSE Some([name |-> parameter.name[1],
               location |-> parameter.in_[1],
               type |-> ParameterType(_to_type_ref(parameter.schema, context),
                                      _pick_primary_media_type(OrEmpty(parameter.content)),
                                      context),
               required |-> IF parameter.in_[1] = "path" THEN TRUE ELSE parameter.required,
               description |-> parameter.description])

\* a merge step in which the first entry of a key is kept
MergeStep_first_wins(merged, index_by_key, parameter) ==
    IF parameter = None THEN <<merged, index_by_key>>
    ELSE IF ~DictHas(index_by_key, <<parameter[1].name, parameter[1].location>>)
    THEN <<Append(merged, parameter[1]),
           Append(index_by_key,
                  Item(<<parameter[1].name, parameter[1].location>>, Len(merged) + 1))>>
    ELSE <<merged, index_by_key>>

\* a merge step that appends every converted entry
MergeStep_appending(merged, index_by_key, parameter) ==
    IF parameter = None THEN <<merged, index_by_key>>
    ELSE <<Append(merged, parameter[1]), index_by_key>>

\* lines 276-286: one round of the loop, for the converted entry `parameter`;
\* returns the pair <<merged, index_by_key>> (index_by_key holds 1-based positions)
MergeStep(merged, index_by_key, parameter) ==
    IF parameter = None THEN <<merged, index_by_key>>
    ELSE IF ~DictHas(index_by_key, <<parameter[1].name, parameter[1].location>>)
    THEN <<Append(merged, parameter[1]),
           Append(index_by_key,
                  Item(<<parameter[1].name, parameter[1].location>>, Len(merged) + 1))>>
    ELSE <<[merged EXCEPT
              ![DictGet(index_by_key, <<parameter[1].name, parameter[1].location>>)] =
                  parameter[1]],
           index_by_key>>

\* the loop of _merge_parameters over raw[pos..], state being <<merged, index_by_key>>
RECURSIVE MergeLoop(_, _, _, _)
MergeLoop(raw, pos, state, context) ==
    IF pos > Len(raw) THEN state[1]
    ELSE MergeLoop(raw, pos + 1,
                   MergeStep(state[1], state[2], _convert_parameter(raw[pos], context)),
                   context)

_merge_parameters(path_level_parameters, operation_level_parameters, context) ==
    MergeLoop(path_level_parameters \o operation_level_parameters, 1, <<<<>>, <<>>>>, context)

\* ------------------------------------------------ request bodies, responses
\* lines 325-334, media_type being the primary media type
RequestBodyOf(request_body, media_type, context) ==
    IF media_type = None THEN None
    ELSE Some([content_type |-> media_type[1][1],
               type |-> _to_type_ref(media_type[1][2].schema, context),
               required |-> request_body.required,
               description |-> request_body.description])

\* a request body conversion that does not drop references
_convert_request_body_refs_kept(request_body, context) ==
    IF request_body = None THEN None
    ELSE RequestBodyOf(request_body[1],
                       _pick_primary_media_type(OrEmpty(request_body[1].content)), context)

_convert_request_body(request_body, context) ==
    IF request_body = None THEN None
    ELSE IF Truthy(request_body[1].ref) THEN None
    ELSE RequestBodyOf(request_body[1],
                       _pick_primary_media_type(OrEmpty(request_body[1].content)), context)

\* a response conversion that keeps the primary media type only
_convert_response_primary_only(status_code, response, context) ==
    IF Truthy(response.ref) THEN None
    ELSE Some([status_code |-> status_code,
               description |-> response.description,
               content |->
                 [i \in DOMAIN _pick_primary_media_type(OrEmpty(response.content)) |->
                    Item(_pick_primary_media_type(OrEmpty(response.content))[i][1],
                         _to_type_ref(
                             _pick_primary_media_type(OrEmpty(response.content))[i][2].schema,
                             context))]])

_convert_response(status_code, response, context) ==
    IF Truthy(response.ref) THEN None
    ELSE Some([status_code |-> status_code,
               description |-> response.description,
               content |-> [i \in DOMAIN OrEmpty(response.content) |->
                              Item(response.content[1][i].key,
                                   _to_type_ref(response.content[1][i].value.schema,
                                                context))]])

\* -------------------------------------------------------------- operations
\* lines 475-478
NormalizedPath(path) ==
    IF StartsWith(path, _PATH_OPERATIONS_PREFIX)
    THEN DropPrefix(path, Len(_PATH_OPERATIONS_PREFIX))
    ELSE path

\* an id synthesis that collapses "_" together with the other separators
_build_default_operation_id_collapsing(method, path, is_webhook) ==
    Lower(Strip(ReSubRuns(
        Remove(Remove((IF is_webhook THEN <<"w", "e", "b", "h", "o", "o", "k">>
                                     ELSE <<"o", "p">>)
                      \o <<"_">> \o method \o <<"_">> \o NormalizedPath(path),
                      "{"), "}"),
        {}, FALSE), "_"))

_build_default_operation_id(method, path, is_webhook) ==
    Lower(Strip(ReSubRuns(
        Remove(Remove((IF is_webhook THEN <<"w", "e", "b", "h", "o", "o", "k">>
                                     ELSE <<"o", "p">>)
                      \o <<"_">> \o method \o <<"_">> \o NormalizedPath(path),
                      "{"), "}"),
        {"_"}, FALSE), "_"))

_convert_operation(method, path, operation, path_level_parameters, context, is_webhook) ==
    [method |-> Lower(method),
     path |-> path,
     operation_id |-> IF Truthy(operation.operationId) THEN operation.operationId[1]
                      ELSE _build_default_operation_id(method, path, is_webhook),
     summary |-> operation.summary,
     description |-> operation.description,
     tags |-> OrEmpty(operation.tags),
     parameters |-> _merge_parameters(path_level_parameters, OrEmpty(operation.parameters),
                                      context),
     request_body |-> _convert_request_body(operation.requestBody, context),
     responses |-> Concat([i \in DOMAIN OrEmpty(operation.responses) |->
                              _convert_response(operation.responses[1][i].key,
                                                operation.responses[1][i].value, context)]),
     deprecated |-> operation.deprecated]

\* getattr(path_item, method, None)
PathItemGet(path_item, method) ==
    IF DictHas(path_item.slots, method) THEN Some(DictGet(path_item.slots, method)) ELSE None

\* lines 218-221: the fixed method fields that hold an operation, with it
FixedOperations(path_item, fields) ==
    SelectSeq([i \in DOMAIN fields |-> Item(fields[i], PathItemGet(path_item, fields[i]))],
              LAMBDA entry : entry.value # None)

\* lines 224-226: the additional operations, under the lower-cased method
AdditionalOperations(path_item) ==
    [i \in DOMAIN OrEmpty(path_item.additionalOperations) |->
        Item(Lower(path_item.additionalOperations[1][i].key),
             Some(path_item.additionalOperations[1][i].value))]

\* lines 222 and 226: one Operation per entry
ConvertOperations(entries, path, path_level_parameters, context, is_webhook) ==
    [i \in DOMAIN entries |->
        _convert_operation(entries[i].key, path, entries[i].value[1],
                           path_level_parameters, context, is_webhook)]

\* a path item conversion that walks the method fields in the order the
\* source declares them
_convert_path_item_declared(path, path_item, context, is_webhook) ==
    ConvertOperations(
        [i \in DOMAIN path_item.slots |->
            Item(path_item.slots[i].key, Some(path_item.slots[i].value))]
        \o AdditionalOperations(path_item),
        path, OrEmpty(path_item.parameters), context, is_webhook)

_convert_path_item(path, path_item, context, is_webhook) ==
    ConvertOperations(
        FixedOperations(path_item, _OPERATION_FIELDS) \o AdditionalOperations(path_item),
        path, OrEmpty(path_item.parameters), context, is_webhook)

\* a grouping that keeps every item, with or without operations
Groups_all(items, operations, is_webhook) ==
    [k \in DOMAIN items |->
        IF is_webhook
        THEN [name |-> items[k].key, operations |-> operations[k],
              description |-> items[k].value.description]
        ELSE [path |-> items[k].key, operations |-> operations[k],
              description |-> items[k].value.description]]

\* lines 173-181 and 195-203: the items that have operations, each with them;
\* an Endpoint calls the key `path`, a Webhook calls it `name`
Groups(items, operations, is_webhook) ==
    LET kept == SelectSeq([i \in DOMAIN items |-> i], LAMBDA i : operations[i] # <<>>)
    IN  [k \in DOMAIN kept |->
            IF is_webhook
            THEN [name |-> items[kept[k]].key, operations |-> operations[kept[k]],
                  description |-> items[kept[k]].value.description]
            ELSE [path |-> items[kept[k]].key, operations |-> operations[kept[k]],
                  description |-> items[kept[k]].value.description]]

\* the loop shared by _convert_paths and _convert_webhooks
ConvertItems(items, context, is_webhook) ==
    Groups(items,
           [i \in DOMAIN items |->
               _convert_path_item(items[i].key, items[i].value, context, is_webhook)],
           is_webhook)

_convert_paths(spec, context) == ConvertItems(OrEmpty(spec.paths), context, FALSE)

_convert_webhooks(spec, context) == ConvertItems(OrEmpty(spec.webhooks), context, TRUE)

\* ---------------------------------------------------------------- document
_extract_component_schemas(spec) ==
    IF spec.components = None THEN <<>>
    ELSE IF ~Truthy(spec.components[1].schemas) THEN <<>>
    ELSE spec.components[1].schemas[1]

\* line 88
enum_names_of(schemas) ==
    {schemas[i].key : i \in {j \in DOMAIN schemas : _schema_is_enum(schemas[j].value)}}

\* a model set built without regard to the enum classification
model_names_of_overlapping(schemas, enum_names) ==
    {schemas[i].key : i \in {j \in DOMAIN schemas :
        ~Truthy(schemas[j].value.ref) /\ Truthy(schemas[j].value.properties)}}

\* line 89
model_names_of(schemas, enum_names) ==
    {schemas[i].key : i \in {j \in DOMAIN schemas :
        _schema_is_model(schemas[j].value) /\ schemas[j].key \notin enum_names}}

\* lines 88-90
BuildContext(schemas, enum_names) ==
    _ConversionContext(enum_names, model_names_of(schemas, enum_names))

\* the context built by lines 87-90 for a document
ContextOf(spec) ==
    BuildContext(_extract_component_schemas(spec),
                 enum_names_of(_extract_component_schemas(spec)))

\* lines 92-106; sorted_enums and sorted_models are sorted(enum_names) and
\* sorted(model_names)
BuildSchema(spec, schemas, context, sorted_enums, sorted_models) ==
    [APISchema(spec.info.title, spec.info.version, spec.info.description) EXCEPT
        !.enums = [i \in DOMAIN sorted_enums |->
                     _convert_enum(sorted_enums[i], DictGet(schemas, sorted_enums[i]))],
        !.models = [i \in DOMAIN sorted_models |->
                      _convert_model(sorted_models[i], DictGet(schemas, sorted_models[i]),
                                     context)],
        !.endpoints = _convert_paths(spec, context),
        !.webhooks = _convert_webhooks(spec, context)]

\* enum_iter and model_iter are the orders in which the two name sets are
\* iterated when they are handed to sorted()
_convert_openapi(spec, enum_iter, model_iter) ==
    BuildSchema(spec, _extract_component_schemas(spec), ContextOf(spec),
                sorted(enum_iter), sorted(model_iter))

\* ------------------------------------------------------- bounded documents
\* sequences over S of length at most n
SeqsUpTo(S, n) == UNION {[1..k -> S] : k \in 0..n}

\* dicts of at most n items with distinct keys from K and values from V
DictsUpTo(K, V, n) ==
    {d \in SeqsUpTo([key : K, value : V], n) :
        \A i, j \in DOMAIN d : i # j => d[i].key # d[j].key}

\* list | None: an empty list is left undeclared
ListOrNone(seq) == IF seq = <<>> THEN None ELSE Some(seq)

SchemaRef(name) == [Schema EXCEPT !.ref = Some(_SCHEMA_REF_PREFIX \o name)]

NameA == <<"A", "b">>
NameB == <<"B">>
NameC == <<"a">>
NamePool == {NameA, NameB, NameC}

StringSchema == [Schema EXCEPT !.type = Some(TypeStr("string"))]
IntegerSchema == [Schema EXCEPT !.type = Some(TypeStr("integer"))]

\* a reference that carries other keywords as well
RefWithKeywords(name) ==
    [SchemaRef(name) EXCEPT !.type = Some(TypeStr("string")), !.nullable = Some(TRUE),
                            !.oneOf = Some(<<StringSchema>>)]

\* a reference that does not start with the local prefix
ExternalRef == [Schema EXCEPT !.ref = Some(<<"#", "/", "d", "e", "f", "s", "/">> \o NameB)]

SchemaPool ==
    { \* a string enum
      [Schema EXCEPT !.type = Some(TypeStr("string")),
                     !.enum = Some(<<JStr(<<"o", "n">>), JStr(<<"o", "f", "f", "-", "1">>)>>)],
      \* a scalar enum that also declares properties
      [Schema EXCEPT !.enum = Some(<<JInt(1), JBool(TRUE)>>),
                     !.properties = Some(<<Item("p", SchemaRef(NameB))>>)],
      \* an enum list holding a non-scalar literal, with properties
      [Schema EXCEPT !.enum = Some(<<JStr(<<"x">>), JNull>>),
                     !.properties = Some(<<Item("h", SchemaRef(NameC)),
                                           Item("e", ExternalRef)>>)],
      \* an object without properties
      [Schema EXCEPT !.type = Some(TypeStr("object"))],
      \* an object with an empty enum list and properties that refer to components
      [Schema EXCEPT !.type = Some(TypeStr("object")),
                     !.enum = Some(<<>>),
                     !.properties = Some(<<Item("f", RefWithKeywords(NameA)),
                                           Item("g", [Schema EXCEPT
                                                        !.type = Some(TypeStr("array")),
                                                        !.items = Some(SchemaRef(NameB))])>>),
                     !.required = Some(<<"f">>)],
      \* a reference that also carries an enum list and properties
      [Schema EXCEPT !.ref = Some(_SCHEMA_REF_PREFIX \o NameB),
                     !.enum = Some(<<JStr(<<"y">>)>>),
                     !.properties = Some(<<Item("p", StringSchema)>>)] }

Json == "application/json"
Text == "text/plain"

PathPets == <<"/", "p", "e", "t", "s">>
PathPetsId == <<"/", "p", "e", "t", "s", "/", "{", "i", "d", "}">>
PathA == <<"/", "a">>
Get == _OPERATION_FIELDS[1]
Put == _OPERATION_FIELDS[2]
Post == _OPERATION_FIELDS[3]
Delete == _OPERATION_FIELDS[4]
Copy == <<"C", "O", "P", "Y">>
Purge == <<"P", "u", "r", "g", "e">>
HookB == <<"o", "n", "B">>
HookA == <<"o", "n", "A">>

\* an operation whose parameter, request body and responses refer to components
RefOperation ==
    [RawOperation EXCEPT
        !.parameters = Some(<<[RawParameter EXCEPT
                                  !.name = Some("x"), !.in_ = Some("query"),
                                  !.schema = Some([Schema EXCEPT
                                                     !.type = Some(TypeStr("array")),
                                                     !.items = Some(SchemaRef(NameB))])]>>),
        !.requestBody = Some([RawRequestBody EXCEPT
                                !.content = Some(<<Item(Json,
                                    [MediaType EXCEPT !.schema = Some(SchemaRef(NameA))])>>)]),
        !.responses = Some(<<Item("200",
            [RawResponse EXCEPT
                !.content = Some(<<
                    Item(Text, [MediaType EXCEPT !.schema = Some([Schema EXCEPT
                        !.additionalProperties = Some(AdditionalSchema(SchemaRef(NameA)))])]),
                    Item(Json, [MediaType EXCEPT !.schema = Some([Schema EXCEPT
                        !.oneOf = Some(<<SchemaRef(NameC), SchemaRef(NameB)>>)])])>>)])>>)]

\* documents that vary the component schemas
SchemaDocuments ==
    {[OpenAPI EXCEPT
        !.components = Some([Components EXCEPT !.schemas = Some(schemas)]),
        !.paths = Some(<<Item(PathPets,
                              [PathItem EXCEPT !.slots = <<Item(Get, RefOperation)>>])>>),
        !.webhooks = Some(<<Item(HookA,
                                 [PathItem EXCEPT !.parameters = Some(<<[RawParameter EXCEPT
                                      !.name = Some("y"), !.in_ = Some("header"),
                                      !.schema = Some(SchemaRef(NameC))]>>),
                                                  !.slots = <<Item(Post, RawOperation)>>])>>)]
     : schemas \in DictsUpTo(NamePool, SchemaPool, MaxSchemas)}

ParameterPool ==
    { [RawParameter EXCEPT !.name = Some("id"), !.in_ = Some("path"),
                           !.schema = Some(StringSchema)],
      [RawParameter EXCEPT !.name = Some("id"), !.in_ = Some("path"),
                           !.schema = Some(IntegerSchema)],
      [RawParameter EXCEPT !.name = Some("q"), !.in_ = Some("query"), !.required = TRUE],
      [RawParameter EXCEPT !.name = Some("q"), !.in_ = Some("query"),
                           !.schema = Some(StringSchema)],
      \* a bare reference
      [RawParameter EXCEPT
          !.ref = Some(<<"#", "/", "c", "o", "m", "p", "o", "n", "e", "n", "t", "s", "/", "p">>),
          !.name = Some("id"), !.in_ = Some("path")],
      \* an entry that lacks a name
      [RawParameter EXCEPT !.in_ = Some("query"), !.schema = Some(StringSchema)] }

\* documents that vary the path-level and the operation-level parameter lists of
\* one operation; MaxParams bounds the two lists together
ParameterDocument(all, split) ==
    [OpenAPI EXCEPT
        !.paths = Some(<<Item(PathPetsId,
            [PathItem EXCEPT
                !.parameters = ListOrNone(SubSeq(all, 1, split)),
                !.slots = <<Item(Get, [RawOperation EXCEPT
                    !.parameters = ListOrNone(SubSeq(all, split + 1, Len(all)))])>>])>>)]

ParameterDocuments ==
    UNION {{ParameterDocument(all, split) : split \in 0..Len(all)}
           : all \in SeqsUpTo(ParameterPool, MaxParams)}

PathItemPool ==
    { [PathItem EXCEPT !.slots = <<Item(Post, RawOperation), Item(Get, RawOperation)>>],
      PathItem,
      [PathItem EXCEPT !.slots = <<Item(Delete, RawOperation)>>,
                       !.additionalOperations = Some(<<Item(Purge, RawOperation),
                                                       Item(Copy, RawOperation)>>)],
      [PathItem EXCEPT !.slots = <<Item(Get, RawOperation)>>] }

WebhookItemPool ==
    { [PathItem EXCEPT !.slots = <<Item(Put, RawOperation), Item(Get, RawOperation)>>],
      PathItem,
      [PathItem EXCEPT !.slots = <<Item(Post, RawOperation)>>] }

\* documents that vary the paths map, and documents that vary the webhooks map
PathDocuments ==
    {[OpenAPI EXCEPT !.paths = ListOrNone(paths),
                     !.webhooks = Some(<<Item(HookB, [PathItem EXCEPT
                                            !.slots = <<Item(Post, RawOperation)>>])>>)]
     : paths \in DictsUpTo({PathPets, PathPetsId, PathA}, PathItemPool, MaxPaths)}
    \cup
    {[OpenAPI EXCEPT !.paths = Some(<<Item(PathPets, [PathItem EXCEPT
                                         !.slots = <<Item(Get, RawOperation)>>])>>),
                     !.webhooks = ListOrNone(webhooks)]
     : webhooks \in DictsUpTo({HookB, HookA}, WebhookItemPool, MaxPaths)}

Documents == SchemaDocuments \cup ParameterDocuments \cup PathDocuments

\* --------------------------------------------------- openapi/parser.py
\* the outcome of a call: a returned value or a raised exception
Ok(value) == [ok |-> TRUE, value |-> <<value>>, error |-> <<>>]
Raise(exc) == [ok |-> FALSE, value |-> <<>>, error |-> <<exc>>]

\* an exception message is a fixed text followed by a formatted argument
OpenAPIParseError(text, detail) ==
    [type |-> "OpenAPIParseError", text |-> text, detail |-> detail, cause |-> <<>>]

\* regex class \s
IsSpace(c) == c \in {" ", "\t", "\n", "\r"}

RECURSIVE LStripSpaces(_)
LStripSpaces(s) == IF s # <<>> /\ IsSpace(Head(s)) THEN LStripSpaces(Tail(s)) ELSE s

RECURSIVE RStripSpaces(_)
RStripSpaces(s) ==
    IF s # <<>> /\ IsSpace(s[Len(s)]) THEN RStripSpaces(SubSeq(s, 1, Len(s) - 1)) ELSE s

\* (\d+): the longest prefix of digits
RECURSIVE LeadingDigits(_)
LeadingDigits(s) ==
    IF s # <<>> /\ IsDigit(Head(s)) THEN <<Head(s)>> \o LeadingDigits(Tail(s)) ELSE <<>>

\* what follows the leading digits
AfterGroup(s) == DropPrefix(s, Len(LeadingDigits(s)))

\* (\d+)\. at the start of s
HasGroupDot(s) ==
    LeadingDigits(s) # <<>> /\ AfterGroup(s) # <<>> /\ Head(AfterGroup(s)) = "."

\* what follows (\d+)\.
NextGroup(s) == Tail(AfterGroup(s))

\* (?:[-+][0-9A-Za-z.-]+)? up to the end
SuffixMatches(rest) ==
    \/ rest = <<>>
    \/ /\ Head(rest) \in {"-", "+"}
       /\ Len(rest) >= 2
       /\ \A i \in 2..Len(rest) : IsAlnum(rest[i]) \/ rest[i] \in {".", "-"}

\* ^\s*(\d+)\.(\d+)\.(\d+)(?:[-+][0-9A-Za-z.-]+)?\s*$ on s without the
\* surrounding white space: the three groups, or None
GroupsOf(s) ==
    IF /\ HasGroupDot(s)
       /\ HasGroupDot(NextGroup(s))
       /\ LeadingDigits(NextGroup(NextGroup(s))) # <<>>
       /\ SuffixMatches(AfterGroup(NextGroup(NextGroup(s))))
    THEN Some(<<LeadingDigits(s), LeadingDigits(NextGroup(s)),
                LeadingDigits(NextGroup(NextGroup(s)))>>)
    ELSE None

_OPENAPI_VERSION_RE(version) == GroupsOf(RStripSpaces(LStripSpaces(version)))

\* int(digits)
RECURSIVE ToInt(_)
ToInt(digits) ==
    IF digits = <<>> THEN 0
    ELSE 10 * ToInt(SubSeq(digits, 1, Len(digits) - 1))
         + (IndexOf(Digits, digits[Len(digits)]) - 1)

parse_openapi_version(version) ==
    IF _OPENAPI_VERSION_RE(version) = None
    THEN Raise(OpenAPIParseError("/openapi: Invalid OpenAPI version format", <<>>))
    ELSE Ok([i \in 1..3 |-> ToInt(_OPENAPI_VERSION_RE(version)[1][i])])

\* a selection that knows the minor versions 0, 1 and 2 only
ModelFor_known_minors(parsed) ==
    IF ~parsed.ok THEN parsed
    ELSE IF parsed.value[1][1] # 3 \/ parsed.value[1][2] > 2
    THEN Raise(OpenAPIParseError("/openapi: Unsupported OpenAPI major version: ",
                                 IntToStr(parsed.value[1][1])))
    ELSE IF parsed.value[1][2] = 0 THEN Ok("oas300.OpenAPI")
    ELSE IF parsed.value[1][2] = 1 THEN Ok("oas310.OpenAPI")
    ELSE Ok("oas320.OpenAPI")

\* lines 37-44, for the parsed version
ModelFor(parsed) ==
    IF ~parsed.ok THEN parsed
    ELSE IF parsed.value[1][1] # 3
    THEN Raise(OpenAPIParseError("/openapi: Unsupported OpenAPI major version: ",
                                 IntToStr(parsed.value[1][1])))
    ELSE IF parsed.value[1][2] = 0 THEN Ok("oas300.OpenAPI")
    ELSE IF parsed.value[1][2] = 1 THEN Ok("oas310.OpenAPI")
    ELSE Ok("oas320.OpenAPI")

resolve_openapi_model(version) == ModelFor(parse_openapi_version(version))

\* A raw document.  form: "OpenAPIObject" (already decoded), "dict", "str",
\* "bytes", or "other"; json_ok: the text is well-formed JSON; root_object: the
\* root of the JSON text is an object; version: the `openapi` entry of the
\* mapping (kind "missing", "number" or "str"); valid: the mapping converts to
\* the selected model; model, spec: the typed document the input stands for.
RawDocument ==
    [form |-> "dict", json_ok |-> TRUE, root_object |-> TRUE,
     version |-> [kind |-> "missing", text |-> <<>>], valid |-> TRUE,
     model |-> "oas300.OpenAPI", spec |-> OpenAPI]

VersionString(text) == [kind |-> "str", text |-> text]

\* a conversion that takes the mapping without validating it
Converted_unvalidated(raw, model) ==
    IF ~model.ok THEN model
    ELSE Ok([model |-> model.value[1], spec |-> raw.spec])

\* lines 67-71, for the model selected
Converted(raw, model) ==
    IF ~model.ok THEN model
    ELSE IF ~raw.valid
    THEN Raise(OpenAPIParseError("msgspec.ValidationError", <<>>))
    ELSE Ok([model |-> model.value[1], spec |-> raw.spec])

decode_openapi_document(raw) ==
    IF raw.form = "OpenAPIObject" THEN Ok([model |-> raw.model, spec |-> raw.spec])
    ELSE IF raw.form \notin {"dict", "str", "bytes"}
    THEN Raise(OpenAPIParseError("Unsupported OpenAPI document type: ", <<>>))
    ELSE IF raw.form \in {"str", "bytes"} /\ ~raw.json_ok
    THEN Raise(OpenAPIParseError("Failed to decode OpenAPI JSON: ", <<>>))
    ELSE IF raw.form \in {"str", "bytes"} /\ ~raw.root_object
    THEN Raise(OpenAPIParseError("OpenAPI document root must be an object", <<>>))
    ELSE IF raw.version.kind # "str"
    THEN Raise(OpenAPIParseError("/openapi: Missing or invalid OpenAPI version string", <<>>))
    ELSE Converted(raw, resolve_openapi_model(raw.version.text))

\* ---------------------------------------------------------- schema/errors.py
\* ConversionError(str(exc)) from exc
ConversionError(exc) ==
    [type |-> "ConversionError", text |-> exc.text, detail |-> exc.detail,
     cause |-> <<exc>>]

\* ----------------------------------------------------------- schema/graph.py
\* a node with the class isinstance tests it against
Node(kind, node) == [kind |-> kind, node |-> node]

\* an add_node that loses the node
add_node_dropped(api_schema, node) == api_schema

\* an add_node that keeps every node among the custom nodes
add_node_custom_only(api_schema, node) ==
    [api_schema EXCEPT !.custom_nodes = Append(@, node.node)]

add_node(api_schema, node) ==
    IF node.kind = "Model"
    THEN [api_schema EXCEPT !.models = Append(@, node.node)]
    ELSE IF node.kind = "Enum"
    THEN [api_schema EXCEPT !.enums = Append(@, node.node)]
    ELSE IF node.kind = "Endpoint"
    THEN [api_schema EXCEPT !.endpoints = Append(@, node.node)]
    ELSE IF node.kind = "Webhook"
    THEN [api_schema EXCEPT !.webhooks = Append(@, node.node)]
    ELSE [api_schema EXCEPT !.custom_nodes = Append(@, node.node)]

RECURSIVE add_nodes(_, _)
add_nodes(api_schema, nodes) ==
    IF nodes = <<>> THEN api_schema
    ELSE add_nodes(add_node(api_schema, Head(nodes)), Tail(nodes))

\* -------------------------------------------------------- schema/pipeline.py
\* The callbacks a caller supplies.  A factory returns None ("none"), one
\* custom node that tells how many nodes of each registry it saw ("single"),
\* or a list of three nodes, two of them of one kind ("several").
CustomNode(label) == Node("Custom", [label |-> label])

ExtraModel == Node("Model", [name |-> <<"Z">>, fields |-> <<>>, description |-> None])
ExtraEnum == Node("Enum", [name |-> <<"Y">>, values |-> <<>>, description |-> None])
OtherEnum == Node("Enum", [name |-> <<"X">>, values |-> <<>>, description |-> None])
ExtraEndpoint ==
    Node("Endpoint", [path |-> <<"/", "z">>, operations |-> <<>>, description |-> None])
ExtraWebhook ==
    Node("Webhook", [name |-> <<"o", "n", "Z">>, operations |-> <<>>, description |-> None])

\* factory(schema): kind is the shape of the returned value
Produced(factory, api_schema) ==
    IF factory = "none" THEN [kind |-> "None", nodes |-> <<>>]
    ELSE IF factory = "single"
    THEN [kind |-> "Node",
          nodes |-> <<CustomNode(<<Len(api_schema.models), Len(api_schema.enums),
                                   Len(api_schema.endpoints), Len(api_schema.webhooks),
                                   Len(api_schema.custom_nodes)>>)>>]
    ELSE [kind |-> "Iterable", nodes |-> <<ExtraEnum, ExtraEndpoint, OtherEnum>>]

\* lines 67-76: one round of the loop over the factories
ApplyProduced(api_schema, produced) ==
    IF produced.kind = "None" THEN api_schema
    ELSE IF produced.kind = "Node" THEN add_node(api_schema, produced.nodes[1])
    ELSE add_nodes(api_schema, produced.nodes)

\* visitor.visit(schema): the base NodeVisitor changes nothing, a visitor with
\* a visit_APISchema handler may assign fields of the root
Visited(visitor, api_schema) ==
    IF visitor = "Retitle" THEN [api_schema EXCEPT !.title = "visited"] ELSE api_schema

\* generator.generate(schema)
Generated(api_schema) == <<Item("api.txt", api_schema.title)>>

\* an event of the trace: the step, the index of the factory (0 otherwise),
\* and the IR root handed to the callback
Event(step, index, seen) == [step |-> step, index |-> index, seen |-> seen]

\* the state of one invocation of an entry point
Pipeline(call) ==
    [pc |-> "start", call |-> call, openapi |-> None, schema |-> None, factory |-> 0,
     trace |-> <<>>, outcome |-> None]

Call(entry, raw, custom_nodes, custom_node_factories, visitor) ==
    [entry |-> entry, raw |-> raw, custom_nodes |-> custom_nodes,
     custom_node_factories |-> custom_node_factories, visitor |-> visitor]

\* no entry point of the pipeline has been called
Idle ==
    [Pipeline(Call("none", RawDocument, <<>>, <<>>, None)) EXCEPT !.pc = "idle"]

Returned_(value) == [raised |-> FALSE, error |-> <<>>, value |-> <<value>>]
Raised_(exc) == [raised |-> TRUE, error |-> <<exc>>, value |-> <<>>]

\* GenerationResult; build_schema_pipeline returns the first two fields
GenerationResult(openapi, api_schema, files) ==
    [openapi |-> openapi, schema |-> api_schema, files |-> files]

\* ------------------------------------- schema/nodes.py, schema/visitor.py
\* the classes of the IR; each of them is declared as a subclass of Node
TypeRefClasses ==
    {"StringType", "IntegerType", "NumberType", "BooleanType", "ArrayType", "MapType",
     "UnionType", "ModelRef", "EnumRef", "AnyType"}

NodeClasses ==
    {"APISchema", "Model", "Field", "Enum", "EnumValue", "Endpoint", "Webhook",
     "Operation", "Parameter", "RequestBody", "Response", "Custom"}
    \cup TypeRefClasses

\* isinstance(value, Node), for a value with the name of its class
IsNode(value) == value.kind \in NodeClasses

\* a type reference with type(node).__name__
TypeNode(type) ==
    Node(CASE type.kind = "String" -> "StringType"
           [] type.kind = "Integer" -> "IntegerType"
           [] type.kind = "Number" -> "NumberType"
           [] type.kind = "Boolean" -> "BooleanType"
           [] type.kind = "Array" -> "ArrayType"
           [] type.kind = "Map" -> "MapType"
           [] type.kind = "Union" -> "UnionType"
           [] type.kind = "ModelRef" -> "ModelRef"
           [] type.kind = "EnumRef" -> "EnumRef"
           [] OTHER -> "AnyType",
         type)

\* what getattr(node, field.name) returns: one value, a list or a dict; of a
\* dict only the values are kept
Single(value) == [shape |-> "single", values |-> <<value>>]
Plain(kind) == Single(Node(kind, <<>>))
ListField(kind, items) ==
    [shape |-> "list", values |-> [i \in DOMAIN items |-> Node(kind, items[i])]]
TypeListField(types) ==
    [shape |-> "list", values |-> [i \in DOMAIN types |-> TypeNode(types[i])]]
TypeDictField(content) ==
    [shape |-> "dict", values |-> [i \in DOMAIN content |-> TypeNode(content[i].value)]]
OptionalField(kind, opt) ==
    IF opt = None THEN Plain("NoneType") ELSE Single(Node(kind, opt[1]))

\* the fields of a type reference: nullable, then those of its class
TypeFieldValues(type) ==
    <<Plain("bool")>>
    \o (CASE type.kind \in {"String", "Integer", "Number"} -> <<Plain("str")>>
          [] type.kind = "Array" -> <<Single(TypeNode(type.item_type[1]))>>
          [] type.kind = "Map" -> <<Single(TypeNode(type.value_type[1]))>>
          [] type.kind = "Union" -> <<TypeListField(type.variants)>>
          [] type.kind \in {"ModelRef", "EnumRef"} -> <<Plain("str")>>
          [] OTHER -> <<>>)

\* Field.default: UNSET, a list literal or another literal
DefaultField(field_default) ==
    IF field_default = None THEN Plain("UnsetType")
    ELSE IF field_default[1] = JList THEN ListField("object", <<field_default[1]>>)
    ELSE Plain("object")

\* msgspec.structs.fields(node) with getattr for each: the values of the
\* fields of a node in the order its class declares them
FieldValues(node) ==
    CASE node.kind = "APISchema" ->
            <<Plain("str"), Plain("str"), Plain("str"),
              ListField("Model", node.node.models),
              ListField("Enum", node.node.enums),
              ListField("Endpoint", node.node.endpoints),
              ListField("Webhook", node.node.webhooks),
              ListField("Custom", node.node.custom_nodes)>>
      [] node.kind = "Model" ->
            <<Plain("str"), ListField("Field", node.node.fields), Plain("str")>>
      [] node.kind = "Field" ->
            <<Plain("str"), Single(TypeNode(node.node.type)), Plain("bool"), Plain("str"),
              DefaultField(node.node.default)>>
      [] node.kind = "Enum" ->
            <<Plain("str"), ListField("EnumValue", node.node.values), Plain("str")>>
      [] node.kind = "EnumValue" -> <<Plain("str"), Plain("object")>>
      [] node.kind \in {"Endpoint", "Webhook"} ->
            <<Plain("str"), ListField("Operation", node.node.operations), Plain("str")>>
      [] node.kind = "Operation" ->
            <<Plain("str"), Plain("str"), Plain("str"), Plain("str"), Plain("str"),
              ListField("str", node.node.tags),
              ListField("Parameter", node.node.parameters),
              OptionalField("RequestBody", node.node.request_body),
              ListField("Response", node.node.responses),
              Plain("bool")>>
      [] node.kind = "Parameter" ->
            <<Plain("str"), Plain("str"), Single(TypeNode(node.node.type)), Plain("bool"),
              Plain("str")>>
      [] node.kind = "RequestBody" ->
            <<Plain("str"), Single(TypeNode(node.node.type)), Plain("bool"), Plain("str")>>
      [] node.kind = "Response" ->
            <<Plain("str"), Plain("str"), TypeDictField(node.node.content)>>
      [] node.kind \in TypeRefClasses -> TypeFieldValues(node.node)
      [] OTHER -> <<Plain("object")>>

\* a generic_visit that does not look into dicts
Visitable_no_dicts(field) ==
    IF field.shape = "single"
    THEN IF IsNode(field.values[1]) THEN field.values ELSE <<>>
    ELSE IF field.shape = "list" THEN SelectSeq(field.values, IsNode)
    ELSE <<>>

\* lines 40-49: the values of one field that generic_visit hands to visit
Visitable(field) ==
    IF field.shape = "single"
    THEN IF IsNode(field.values[1]) THEN field.values ELSE <<>>
    ELSE IF field.shape = "list" THEN SelectSeq(field.values, IsNode)
    ELSE IF field.shape = "dict" THEN SelectSeq(field.values, IsNode)
    ELSE <<>>

\* lines 38-49: the nodes generic_visit(node) hands to visit, in order
VisitedBy(fields) == Concat([i \in DOMAIN fields |-> Visitable(fields[i])])

\* a visitor class: a dict from class name to what its visit_<ClassName>
\* does with generic_visit; every handler has code before and after the place
\* of the call, "recurse" makes the call and "prune" does not
Handlers(classes, how) == [i \in DOMAIN classes |-> Item(classes[i], how[i])]

\* a frame of the call stack: the method running, its node with the path of
\* the node from the root, and the number of the next child in generic_visit
Frame(at, path, node) == [at |-> at, path |-> path, node |-> node, pos |-> 1]

\* an entry of the log a run of the visitor leaves
Entry(what, frame) == [what |-> what, path |-> frame.path, kind |-> frame.node.kind]

\* visitor.visit(root) has been called
Walk(root, handlers) ==
    [pc |-> "walking", root |-> root, handlers |-> handlers,
     stack |-> <<Frame("visit", <<>>, root)>>, log |-> <<>>]

\* no visitor is running
NoWalk ==
    [Walk(Node("APISchema", APISchema("", "", None)), <<>>) EXCEPT
        !.pc = "idle", !.stack = <<>>]

Top(stack) == stack[Len(stack)]
Pop(stack) == SubSeq(stack, 1, Len(stack) - 1)

\* a dispatch that never finds a handler
Dispatch_default_only(handlers, top) == [top EXCEPT !.at = "generic_visit"]

\* lines 32-33: getattr(self, "visit_<ClassName>", self.generic_visit)
Dispatch(handlers, top) ==
    IF DictHas(handlers, top.node.kind)
    THEN [top EXCEPT !.at = "handler"]
    ELSE [top EXCEPT !.at = "generic_visit"]

\* one pass of the loops of generic_visit: the next child is handed to
\* visit, or the method returns
GenericStep(stack, top, targets) ==
    IF top.pos <= Len(targets)
    THEN Pop(stack) \o <<[top EXCEPT !.pos = @ + 1],
                         Frame("visit", Append(top.path, top.pos), targets[top.pos])>>
    ELSE Pop(stack)

\* -------------------------------------------------------------- behaviour
Init ==
    /\ document \in Documents
    /\ results = <<>>
    /\ pipeline = Idle
    /\ walk = NoWalk

\* one call of from_openapi(document); the document is converted by
\* _convert_openapi whatever its version family
from_openapi ==
    /\ Len(results) < MaxRuns
    /\ \E enum_iter \in SetOrders(ContextOf(document).enum_names),
          model_iter \in SetOrders(ContextOf(document).model_names) :
            results' = Append(results, _convert_openapi(document, enum_iter, model_iter))
    /\ UNCHANGED <<document, pipeline, walk>>

Next == from_openapi

Spec == Init /\ [][Next]_vars

\* the IR returned by some call
Returned(api_schema) == \E r \in DOMAIN results : results[r] = api_schema

\* ------------------------------------------- reading a document and its IR
\* the operations a document declares: where they are declared, the method
\* the IR lists them under, and the two parameter lists that apply to them
DeclaredIn(items, is_webhook) ==
    UNION {
        {[is_webhook |-> is_webhook, key |-> items[i].key,
          method |-> items[i].value.slots[k].key,
          operation |-> items[i].value.slots[k].value,
          path_level |-> OrEmpty(items[i].value.parameters)]
         : k \in DOMAIN items[i].value.slots}
        \cup
        {[is_webhook |-> is_webhook, key |-> items[i].key,
          method |-> Lower(OrEmpty(items[i].value.additionalOperations)[k].key),
          operation |-> OrEmpty(items[i].value.additionalOperations)[k].value,
          path_level |-> OrEmpty(items[i].value.parameters)]
         : k \in DOMAIN OrEmpty(items[i].value.additionalOperations)}
        : i \in DOMAIN items}

DeclaredOperations(spec) ==
    DeclaredIn(OrEmpty(spec.paths), FALSE) \cup DeclaredIn(OrEmpty(spec.webhooks), TRUE)

\* the operations the IR holds for a declared operation
ConvertedOperations(api_schema, declared) ==
    LET groups == IF declared.is_webhook
                  THEN SelectSeq(api_schema.webhooks, LAMBDA w : w.name = declared.key)
                  ELSE SelectSeq(api_schema.endpoints, LAMBDA e : e.path = declared.key)
    IN  SelectSeq(Concat([g \in DOMAIN groups |-> groups[g].operations]),
                  LAMBDA o : o.method = declared.method)

\* a raw parameter that is neither a bare reference nor lacking name or location
IsKept(raw) == raw.ref = None /\ raw.name # None /\ raw.in_ # None

KeyOf(parameter) == <<parameter.name, parameter.location>>
RawKeyOf(raw) == <<raw.name[1], raw.in_[1]>>

\* ------------------------------------------------------------------- C1
\* the merge the claim describes, over the converted entries `entries` of the
\* path-level list followed by the operation-level list
FirstPositions(entries) ==
    SelectSeq([i \in DOMAIN entries |-> i],
              LAMBDA i : \A j \in 1..(i - 1) : KeyOf(entries[j]) # KeyOf(entries[i]))

LastWithKey(entries, key) ==
    entries[CHOOSE i \in DOMAIN entries :
                /\ KeyOf(entries[i]) = key
                /\ \A j \in (i + 1)..Len(entries) : KeyOf(entries[j]) # key]

LastDeclaredFirstPosition(entries) ==
    [n \in DOMAIN FirstPositions(entries) |->
        LastWithKey(entries, KeyOf(entries[FirstPositions(entries)[n]]))]

ConvertedEntries(raw, context) ==
    Concat([i \in DOMAIN raw |-> _convert_parameter(raw[i], context)])

AllRaw(declared) == declared.path_level \o OrEmpty(declared.operation.parameters)

\* C1: the parameters of every converted operation are the converted entries
\* of the path-level list followed by the operation-level list, one per
\* (name, location) key, each key at the position of its first entry and
\* carrying the value of its last entry.
C1_MergeLastWinsFirstPosition ==
    \A r \in DOMAIN results : \A declared \in DeclaredOperations(document) :
        LET converted == ConvertedOperations(results[r], declared) IN
        /\ Len(converted) = 1
        /\ converted[1].parameters =
             LastDeclaredFirstPosition(
                 ConvertedEntries(AllRaw(declared), ContextOf(document)))

\* an operation was converted whose first and third entries share a key and
\* differ in value, with an entry of another key between them
C1_Witness ==
    /\ results # <<>>
    /\ \E declared \in DeclaredOperations(document) :
        LET entries == ConvertedEntries(AllRaw(declared), ContextOf(document)) IN
        /\ declared.path_level # <<>>
        /\ Len(entries) = 3
        /\ KeyOf(entries[1]) = KeyOf(entries[3])
        /\ entries[1] # entries[3]
        /\ KeyOf(entries[2]) # KeyOf(entries[1])

\* ------------------------------------------------------------------- C2
\* the declared `required` flag of the last kept entry with the key
DeclaredRequired(raw, key) ==
    raw[CHOOSE i \in DOMAIN raw :
            /\ IsKept(raw[i]) /\ RawKeyOf(raw[i]) = key
            /\ \A j \in (i + 1)..Len(raw) : ~(IsKept(raw[j]) /\ RawKeyOf(raw[j]) = key)].required

\* C2: a converted parameter whose location is "path" is required whatever
\* was declared; a parameter of any other location carries the declared flag.
C2_PathParametersRequired ==
    \A r \in DOMAIN results : \A declared \in DeclaredOperations(document) :
        LET converted == ConvertedOperations(results[r], declared) IN
        \A c \in DOMAIN converted : \A i \in DOMAIN converted[c].parameters :
            LET parameter == converted[c].parameters[i] IN
            IF parameter.location = "path" THEN parameter.required = TRUE
            ELSE parameter.required = DeclaredRequired(AllRaw(declared), KeyOf(parameter))

\* an operation-level path parameter declared `required: false` overrode a
\* path-level entry of the same key, and a query parameter was converted too
C2_Witness ==
    /\ results # <<>>
    /\ \E declared \in DeclaredOperations(document) :
        LET operation_level == OrEmpty(declared.operation.parameters) IN
        /\ \E i \in DOMAIN declared.path_level, j \in DOMAIN operation_level :
            /\ IsKept(declared.path_level[i]) /\ IsKept(operation_level[j])
            /\ RawKeyOf(declared.path_level[i]) = RawKeyOf(operation_level[j])
            /\ operation_level[j].in_ = Some("path")
            /\ operation_level[j].required = FALSE
        /\ \E j \in DOMAIN operation_level :
            IsKept(operation_level[j]) /\ operation_level[j].in_ = Some("query")

\* ------------------------------------------------------------------- C3
Names(registry) == [i \in DOMAIN registry |-> registry[i].name]

NoRepeats(seq) == \A i, j \in DOMAIN seq : i # j => seq[i] # seq[j]

\* C3: no name is in both the models and the enums registry of a returned
\* APISchema, and no name is twice in one registry.
C3_MutuallyExclusive ==
    \A r \in DOMAIN results :
        /\ Range(Names(results[r].models)) \cap Range(Names(results[r].enums)) = {}
        /\ NoRepeats(Names(results[r].models))
        /\ NoRepeats(Names(results[r].enums))

\* a document was converted that has a component with a scalar enum list and
\* properties, next to a component that became a model
C3_Witness ==
    /\ results # <<>>
    /\ results[1].models # <<>>
    /\ \E i \in DOMAIN _extract_component_schemas(document) :
        LET schema == _extract_component_schemas(document)[i].value IN
        /\ schema.ref = None /\ Truthy(schema.properties) /\ Truthy(schema.enum)
        /\ \A k \in DOMAIN schema.enum[1] : IsScalar(schema.enum[1][k])

\* ------------------------------------------------------------------- C4
\* the operations of an APISchema
Operations(api_schema) ==
    Concat([i \in DOMAIN api_schema.endpoints |-> api_schema.endpoints[i].operations])
    \o Concat([i \in DOMAIN api_schema.webhooks |-> api_schema.webhooks[i].operations])

\* the TypeRefs an APISchema holds in fields, parameters, request bodies and
\* response contents
TypesOf(api_schema) ==
    LET ops == Operations(api_schema) IN
    UNION {{api_schema.models[i].fields[j].type : j \in DOMAIN api_schema.models[i].fields}
           : i \in DOMAIN api_schema.models}
    \cup UNION {{ops[i].parameters[j].type : j \in DOMAIN ops[i].parameters}
                : i \in DOMAIN ops}
    \cup UNION {{ops[i].request_body[j].type : j \in DOMAIN ops[i].request_body}
                : i \in DOMAIN ops}
    \cup UNION {UNION {{ops[i].responses[j].content[k].value
                        : k \in DOMAIN ops[i].responses[j].content}
                       : j \in DOMAIN ops[i].responses}
                : i \in DOMAIN ops}

\* a TypeRef and every TypeRef nested in it
RECURSIVE Nested(_)
Nested(type) ==
    {type}
    \cup UNION {Nested(type.item_type[i]) : i \in DOMAIN type.item_type}
    \cup UNION {Nested(type.value_type[i]) : i \in DOMAIN type.value_type}
    \cup UNION {Nested(type.variants[i]) : i \in DOMAIN type.variants}

\* C4: every ModelRef in a returned APISchema names a Model of its models
\* registry and every EnumRef names an Enum of its enums registry.
C4_ReferencesResolve ==
    \A r \in DOMAIN results : \A type \in TypesOf(results[r]) : \A t \in Nested(type) :
        /\ t.kind = "ModelRef" => t.name \in Range(Names(results[r].models))
        /\ t.kind = "EnumRef" => t.name \in Range(Names(results[r].enums))

\* an APISchema was returned that holds a ModelRef nested in another type,
\* for a document that also refers to a name it does not classify
C4_Witness ==
    /\ results # <<>>
    /\ \E type \in TypesOf(results[1]) : \E t \in Nested(type) :
        t # type /\ t.kind = "ModelRef"
    /\ \E name \in NamePool :
        /\ name \notin Range(Names(results[1].models)) \cup Range(Names(results[1].enums))
        /\ \E type \in TypesOf(results[1]) : type.kind = "Any"

\* ------------------------------------------------------------------- C5
\* what the claim gives for a $ref string
ExpectedRef(ref, context) ==
    IF StartsWith(ref, _SCHEMA_REF_PREFIX)
    THEN LET name == SubSeq(ref, Len(_SCHEMA_REF_PREFIX) + 1, Len(ref)) IN
         IF name \in context.enum_names THEN EnumRef(name)
         ELSE IF name \in context.model_names THEN ModelRef(name)
         ELSE AnyType(FALSE)
    ELSE AnyType(FALSE)

\* the source schema of field j of the model called `name`
PropertySchema(spec, name, j) ==
    DictGet(_extract_component_schemas(spec), name).properties[1][j].value

\* the schema of the first media type of a declared request body
BodySchema(operation) == operation.requestBody[1].content[1][1].value.schema

\* C5: a schema node that carries a $ref resolves by the name after the local
\* prefix alone: EnumRef for an enum name, ModelRef for a model name, Any
\* otherwise, whatever else the node declares.
C5_RefResolution ==
    \A r \in DOMAIN results :
        /\ \A i \in DOMAIN results[r].models : \A j \in DOMAIN results[r].models[i].fields :
            LET schema == PropertySchema(document, results[r].models[i].name, j) IN
            schema.ref # None =>
                results[r].models[i].fields[j].type =
                    ExpectedRef(schema.ref[1], ContextOf(document))
        /\ \A declared \in DeclaredOperations(document) :
            (declared.operation.requestBody # None
             /\ BodySchema(declared.operation) # None
             /\ BodySchema(declared.operation)[1].ref # None) =>
                ConvertedOperations(results[r], declared)[1].request_body[1].type =
                    ExpectedRef(BodySchema(declared.operation)[1].ref[1],
                                ContextOf(document))

\* a model was converted with a field whose $ref node declares other keywords
\* and resolved to an EnumRef, and with a ModelRef field; a request body that
\* refers to an unclassified name was converted too
C5_Witness ==
    /\ results # <<>>
    /\ \E i \in DOMAIN results[1].models : \E j \in DOMAIN results[1].models[i].fields :
        /\ PropertySchema(document, results[1].models[i].name, j).ref # None
        /\ PropertySchema(document, results[1].models[i].name, j).type # None
        /\ results[1].models[i].fields[j].type.kind = "EnumRef"
    /\ \E ops \in {Operations(results[1])} : \E i \in DOMAIN ops :
        /\ ops[i].request_body # None
        /\ ops[i].request_body[1].type.kind = "EnumRef"
    /\ \E type \in TypesOf(results[1]) : type.kind = "Any"

\* ------------------------------------------------------------------- C6
\* the enum test as the claims state it
IsEnumSchema(schema) ==
    /\ schema.ref = None
    /\ schema.enum # None
    /\ schema.enum[1] # <<>>
    /\ \A k \in DOMAIN schema.enum[1] : schema.enum[1][k].t \in {"str", "int", "float", "bool"}

\* C6: a component schema that is neither a reference nor an enum is emitted
\* as a model when its type is "object" or it declares properties.
C6_ObjectOrPropertiesIsModel ==
    \A r \in DOMAIN results : \A i \in DOMAIN _extract_component_schemas(document) :
        LET entry == _extract_component_schemas(document)[i] IN
        (/\ entry.value.ref = None
         /\ ~IsEnumSchema(entry.value)
         /\ \/ entry.value.type = Some(TypeStr("object"))
            \/ entry.value.properties # None)
        => entry.key \in Range(Names(results[r].models))

\* ------------------------------------------------------------------- C7
\* C7: the enums registry holds exactly the components that are not references
\* and declare a non-empty enum list of scalars, and none of them is a model,
\* whether or not it declares properties.
C7_EnumClassification ==
    \A r \in DOMAIN results :
        LET schemas == _extract_component_schemas(document)
            enums == {schemas[i].key : i \in {k \in DOMAIN schemas : IsEnumSchema(schemas[k].value)}}
        IN  /\ Range(Names(results[r].enums)) = enums
            /\ Range(Names(results[r].models)) \cap enums = {}

\* a document was converted that has a scalar enum with properties and an
\* enum list with a non-scalar literal
C7_Witness ==
    /\ results # <<>>
    /\ \E i, j \in DOMAIN _extract_component_schemas(document) :
        LET first == _extract_component_schemas(document)[i].value
            second == _extract_component_schemas(document)[j].value
        IN  /\ IsEnumSchema(first) /\ first.properties # None
            /\ second.ref = None /\ Truthy(second.enum) /\ ~IsEnumSchema(second)

\* ------------------------------------------------------------------- C8
Ascending(names) ==
    \A i, j \in DOMAIN names : i < j => StrLess(names[i], names[j])

\* C8: the models and the enums of a returned APISchema are each in ascending
\* order of name.
C8_RegistriesSorted ==
    \A r \in DOMAIN results :
        Ascending(Names(results[r].models)) /\ Ascending(Names(results[r].enums))

\* two components of one registry were converted from a schemas map that
\* lists them in descending order
C8_Witness ==
    /\ results # <<>>
    /\ Len(results[1].enums) = 2 \/ Len(results[1].models) = 2
    /\ Len(_extract_component_schemas(document)) = 2
    /\ StrLess(_extract_component_schemas(document)[2].key,
               _extract_component_schemas(document)[1].key)

\* ------------------------------------------------------------------- C9
\* C9: all calls of from_openapi on the same document return equal IR.
C9_Deterministic ==
    \A i, j \in DOMAIN results : results[i] = results[j]

\* the document was converted twice, with two enums (whose name set is
\* iterated in either order) and an operation with a synthesized id
C9_Witness ==
    /\ Len(results) >= 2
    /\ Len(results[2].enums) = 2
    /\ \E declared \in DeclaredOperations(document) : declared.operation.operationId = None

\* ------------------------------------------------------------------- C10
\* the methods a path item declares, in the order the source declares them
DeclaredMethods(path_item) ==
    DictKeys(path_item.slots)
    \o [i \in DOMAIN OrEmpty(path_item.additionalOperations) |->
          Lower(path_item.additionalOperations[1][i].key)]

\* the methods a path item declares, the fixed fields in the order of
\* _OPERATION_FIELDS
SlotOrderMethods(path_item) ==
    SelectSeq(_OPERATION_FIELDS, LAMBDA method : DictHas(path_item.slots, method))
    \o [i \in DOMAIN OrEmpty(path_item.additionalOperations) |->
          Lower(path_item.additionalOperations[1][i].key)]

Methods(operations) == [i \in DOMAIN operations |-> operations[i].method]

\* the keys of the items that declare an operation, in source order
KeysWithOperations(items) ==
    DictKeys(SelectSeq(items, LAMBDA item : DeclaredMethods(item.value) # <<>>))

NameM == <<"M">>

\* a document whose only component is the model M with the properties given
ModelDocument(properties) ==
    [OpenAPI EXCEPT
        !.components = Some([Components EXCEPT !.schemas = Some(<<Item(NameM,
            [Schema EXCEPT !.properties = Some(properties)])>>)])]

\* `type`: undeclared, a name, or a list of at most MaxTypes names
TypePool ==
    {None}
    \cup {Some(TypeStr(name))
          : name \in {"string", "integer", "boolean", "array", "object", "null"}}
    \cup {Some(TypeList(names))
          : names \in UNION {[1..k -> {"string", "integer", "null"}] : k \in 1..MaxTypes}}

NullableInteger == [Schema EXCEPT !.type = Some(TypeList(<<"integer", "null">>))]
BooleanSchema == [Schema EXCEPT !.type = Some(TypeStr("boolean"))]

\* the oneOf / anyOf / allOf lists of a schema
KeywordPool ==
    { [oneOf |-> None, anyOf |-> None, allOf |-> None],
      [oneOf |-> Some(<<>>), anyOf |-> Some(<<NullableInteger>>), allOf |-> None],
      [oneOf |-> None, anyOf |-> None, allOf |-> Some(<<StringSchema, BooleanSchema>>)],
      [oneOf |-> Some(<<BooleanSchema>>), anyOf |-> Some(<<StringSchema>>),
       allOf |-> Some(<<NullableInteger>>)] }

TypeSchemaPool ==
    {[Schema EXCEPT !.type = type, !.nullable = nullable,
                    !.oneOf = keywords.oneOf, !.anyOf = keywords.anyOf,
                    !.allOf = keywords.allOf]
     : type \in TypePool, nullable \in {None, Some(TRUE), Some(FALSE)},
       keywords \in KeywordPool}

\* documents that vary the schema of one property
TypeDocuments == {ModelDocument(<<Item("p", schema)>>) : schema \in TypeSchemaPool}

\* `default`: undeclared, null, or a literal
DefaultPool ==
    {None, Some(JNull), Some(JInt(0)), Some(JInt(1)), Some(JFloat(0)), Some(JBool(FALSE)),
     Some(JStr(<<>>)), Some(JStr(<<"x">>)), Some(JList)}

\* documents that vary the defaults of two properties
DefaultDocuments ==
    {ModelDocument(<<Item("p", [StringSchema EXCEPT !.default = first]),
                     Item("q", [IntegerSchema EXCEPT !.default = second])>>)
     : first \in DefaultPool, second \in DefaultPool}

\* scalar literals whose derived member names collide
LiteralPool ==
    {JStr(<<"a">>), JStr(<<"A">>), JStr(<<"A", "_", "2">>), JStr(<<"1">>), JInt(1),
     JStr(<<"-">>), JStr(<<"-", "b", " ", ".", "c", "!">>), JBool(TRUE)}

\* documents that vary the literal list of one enum, of at most MaxLiterals literals
EnumDocuments ==
    {[OpenAPI EXCEPT
        !.components = Some([Components EXCEPT !.schemas = Some(<<Item(NameA,
            [Schema EXCEPT !.enum = Some(literals)])>>)])]
     : literals \in UNION {[1..k -> LiteralPool] : k \in 1..MaxLiterals}}

\* a path in the form of a reference into the paths map
PathRefPets == _PATH_OPERATIONS_PREFIX \o <<"p", "e", "t", "s">>
PathDashed == <<"/", "a", "-", "b", ".", "{", "c", "}", "/">>
HookDotted == <<"P", "e", "t", ".", "n", "e", "w">>
ListPetsId == <<"l", "i", "s", "t", "P", "e", "t", "s", "_">>

\* an operation that declares nothing but, possibly, an operationId
OperationItem(method, operation_id) ==
    [PathItem EXCEPT !.slots = <<Item(method, [RawOperation EXCEPT
                                                  !.operationId = operation_id])>>]

\* documents that vary the path or webhook name, the method and the
\* operationId of one operation
OperationIdDocuments ==
    {[OpenAPI EXCEPT !.paths = Some(<<Item(path, OperationItem(method, operation_id))>>)]
     : path \in {PathPets, PathPetsId, PathRefPets, PathDashed},
       method \in {Get, Delete}, operation_id \in {None, Some(ListPetsId)}}
    \cup
    {[OpenAPI EXCEPT !.webhooks = Some(<<Item(name, OperationItem(method, operation_id))>>)]
     : name \in {HookB, HookDotted, PathRefPets},
       method \in {Post, Delete}, operation_id \in {None, Some(ListPetsId)}}
    \cup
    {[OpenAPI EXCEPT !.paths = Some(<<Item(path,
        [PathItem EXCEPT !.additionalOperations = Some(<<Item(method,
            [RawOperation EXCEPT !.operationId = operation_id])>>)])>>)]
     : path \in {PathPetsId, PathDashed},
       method \in {Copy, Purge}, operation_id \in {None, Some(ListPetsId)}}

Xml == "application/xml"

\* content maps of at most MaxMedia media types
ContentPool ==
    DictsUpTo({Json, Text, Xml},
              {MediaType, [MediaType EXCEPT !.schema = Some(StringSchema)],
               [MediaType EXCEPT !.schema = Some(NullableInteger)]},
              MaxMedia)

\* `content`: undeclared or a map, possibly empty
OptionalContentPool == {None} \cup {Some(content) : content \in ContentPool}

ComponentRef(kind) ==
    <<"#", "/", "c", "o", "m", "p", "o", "n", "e", "n", "t", "s", "/">> \o kind \o <<"/", "r">>

OperationDocument(operation) ==
    [OpenAPI EXCEPT !.paths = Some(<<Item(PathPets,
        [PathItem EXCEPT !.slots = <<Item(Post, operation)>>])>>)]

\* documents that vary the request body of one operation
RequestBodyDocuments ==
    {OperationDocument(RawOperation)}
    \cup
    {OperationDocument([RawOperation EXCEPT !.requestBody = Some(
        [RawRequestBody EXCEPT !.ref = ref, !.content = content, !.required = required])])
     : ref \in {None, Some(ComponentRef(<<"r", "e", "q", "u", "e", "s", "t", "B", "o", "d", "i", "e", "s">>))},
       content \in OptionalContentPool, required \in BOOLEAN}

\* documents that vary the responses of one operation: the content of the
\* first, and whether a second one follows, plain or as a reference
ResponseDocuments ==
    {OperationDocument([RawOperation EXCEPT !.responses = Some(
        <<Item("200", [RawResponse EXCEPT !.ref = ref, !.content = content])>> \o others)])
     : ref \in {None, Some(ComponentRef(<<"r", "e", "s", "p", "o", "n", "s", "e", "s">>))},
       content \in OptionalContentPool,
       others \in {<<>>,
                   <<Item("default", RawResponse)>>,
                   <<Item("404", [RawResponse EXCEPT !.ref =
                        Some(ComponentRef(<<"r", "e", "s", "p", "o", "n", "s", "e", "s">>))]),
                     Item("default", [RawResponse EXCEPT !.content =
                        Some(<<Item(Text, MediaType)>>)])>>}}

\* documents that vary the schema and the content of one parameter
ParameterContentDocuments ==
    {OperationDocument([RawOperation EXCEPT !.parameters = Some(<<
        [RawParameter EXCEPT !.name = Some("q"), !.in_ = Some("query"),
                             !.schema = schema, !.content = content]>>)])
     : schema \in {None, Some(Schema), Some(BooleanSchema)},
       content \in OptionalContentPool}
    \cup
    {OperationDocument([RawOperation EXCEPT !.parameters = Some(<<
        [RawParameter EXCEPT !.ref = Some(ComponentRef(<<"p", "a", "r", "a", "m", "e", "t", "e", "r", "s">>)),
                             !.name = name, !.in_ = name,
                             !.schema = schema, !.content = content]>>)])
     : name \in {None, Some("query")},
       schema \in {None, Some(BooleanSchema)},
       content \in {None, Some(<<Item(Json, [MediaType EXCEPT !.schema = Some(StringSchema)])>>)}}

\* `additionalProperties`: undeclared, a boolean, or a schema, which may have
\* additionalProperties of its own
AdditionalPool ==
    {None, Some(AdditionalBool(TRUE)), Some(AdditionalBool(FALSE)),
     Some(AdditionalSchema(IntegerSchema)),
     Some(AdditionalSchema([StringSchema EXCEPT
                               !.additionalProperties =
                                   Some(AdditionalSchema(BooleanSchema))]))}

\* schemas that declare a type together with items, properties,
\* additionalProperties and a format
PrioritySchemaPool ==
    {[Schema EXCEPT !.type = type, !.items = items, !.properties = properties,
                    !.additionalProperties = additional, !.format = format]
     : type \in {None, Some(TypeList(<<"null", "array">>)), Some(TypeList(<<"null">>))}
               \cup {Some(TypeStr(name))
                     : name \in {"array", "object", "string", "integer", "number",
                                 "boolean", "file"}},
       items \in {None, Some([NullableInteger EXCEPT !.format = Some("int64")])},
       properties \in {None, Some(<<>>), Some(<<Item("q", StringSchema)>>)},
       additional \in AdditionalPool,
       format \in {None, Some("int32")}}

\* documents that vary those of one property
PriorityDocuments == {ModelDocument(<<Item("p", schema)>>) : schema \in PrioritySchemaPool}

ShapeDocuments ==
    TypeDocuments \cup DefaultDocuments \cup EnumDocuments \cup OperationIdDocuments
    \cup RequestBodyDocuments \cup ResponseDocuments \cup ParameterContentDocuments
    \cup PriorityDocuments

ShapeInit ==
    /\ document \in ShapeDocuments
    /\ results = <<>>
    /\ pipeline = Idle
    /\ walk = NoWalk

\* from_openapi over the documents of single shapes
ShapeSpec == ShapeInit /\ [][Next]_vars

\* ------------------------------------------------------------------- C11
\* the nullable flag and the effective type name as the claim computes them
DeclaresNull(schema) ==
    /\ schema.type # None
    /\ schema.type[1].isList
    /\ "null" \in Range(schema.type[1].names)

NullableOf(schema) == schema.nullable = Some(TRUE) \/ DeclaresNull(schema)

NonNullNames(schema) == SelectSeq(schema.type[1].names, LAMBDA name : name # "null")

EffectiveType(schema) ==
    IF schema.type = None THEN None
    ELSE IF ~schema.type[1].isList THEN Some(schema.type[1].names[1])
    ELSE IF NonNullNames(schema) = <<>> THEN None
    ELSE Some(NonNullNames(schema)[1])

ScalarKind(name) ==
    CASE name = "string" -> "String"
      [] name = "integer" -> "Integer"
      [] name = "number" -> "Number"
      [] name = "boolean" -> "Boolean"

\* a schema that declares nothing but type and nullable
IsBareType(schema) ==
    /\ KeywordVariants(schema) = <<>>
    /\ schema.properties = None
    /\ schema.additionalProperties = None

Nullable30String == [StringSchema EXCEPT !.nullable = Some(TRUE)]
Nullable31String == [Schema EXCEPT !.type = Some(TypeList(<<"string", "null">>))]

\* C11: the TypeRef of every property schema that is not a reference carries
\* the nullable flag `nullable: true or "null" in a list-valued type`; a bare
\* scalar schema resolves to the type of its first non-null type name; the
\* 3.0 form {nullable: true, type: "string"} and the 3.1 form
\* {type: ["string", "null"]} both resolve to a nullable String.
C11_Nullability ==
    \A r \in DOMAIN results : \A i \in DOMAIN results[r].models :
        \A j \in DOMAIN results[r].models[i].fields :
            LET schema == PropertySchema(document, results[r].models[i].name, j)
                type == results[r].models[i].fields[j].type
            IN  schema.ref = None =>
                /\ type.nullable = NullableOf(schema)
                /\ (/\ IsBareType(schema)
                    /\ EffectiveType(schema) # None
                    /\ EffectiveType(schema)[1] \in {"string", "integer", "number", "boolean"})
                   => type.kind = ScalarKind(EffectiveType(schema)[1])
                /\ schema \in {Nullable30String, Nullable31String}
                   => type = ScalarType("string", None, TRUE)

\* a property declared with type ["string", "null"] was converted to a
\* nullable String
C11_Witness ==
    /\ results # <<>>
    /\ document = ModelDocument(<<Item("p", Nullable31String)>>)
    /\ results[1].models[1].fields[1].type.kind = "String"
    /\ results[1].models[1].fields[1].type.nullable

\* ------------------------------------------------------------------- C12
\* the entries of oneOf, then anyOf, then allOf
DeclaredVariants(schema) ==
    OrEmpty(schema.oneOf) \o OrEmpty(schema.anyOf) \o OrEmpty(schema.allOf)

\* C12: a property schema that is not a reference and lists at least one entry
\* under oneOf, anyOf or allOf resolves to a Union, whatever its own type; the
\* variants are the resolved entries of oneOf, anyOf, allOf in that order, each
\* with its own nullable flag, and the Union carries the schema's flag.
C12_UnionFlattening ==
    \A r \in DOMAIN results : \A i \in DOMAIN results[r].models :
        \A j \in DOMAIN results[r].models[i].fields :
            LET schema == PropertySchema(document, results[r].models[i].name, j)
                type == results[r].models[i].fields[j].type
            IN  (schema.ref = None /\ DeclaredVariants(schema) # <<>>) =>
                /\ type.kind = "Union"
                /\ type.nullable = NullableOf(schema)
                /\ type.variants =
                     [k \in DOMAIN DeclaredVariants(schema) |->
                        _to_type_ref(Some(DeclaredVariants(schema)[k]), ContextOf(document))]
                /\ \A k \in DOMAIN type.variants :
                     type.variants[k].nullable = NullableOf(DeclaredVariants(schema)[k])

\* a nullable array schema that lists entries under all three keywords was
\* converted to a nullable Union of three variants, the first not nullable
C12_Witness ==
    /\ results # <<>>
    /\ \E schema \in {PropertySchema(document, NameM, 1)} :
        /\ schema.type = Some(TypeStr("array"))
        /\ schema.nullable = Some(TRUE)
        /\ schema.oneOf # None /\ schema.anyOf # None /\ schema.allOf # None
    /\ results[1].models[1].fields[1].type.kind = "Union"
    /\ Len(results[1].models[1].fields[1].type.variants) = 3
    /\ ~results[1].models[1].fields[1].type.variants[1].nullable

\* ------------------------------------------------------------------- C13
\* C13: the default of every model field is absent (None here) when the
\* property declares no default or declares null, and is the declared literal
\* otherwise, the falsy literals 0, 0.0, false, "" and [] included.
C13_DefaultSuppression ==
    \A r \in DOMAIN results : \A i \in DOMAIN results[r].models :
        \A j \in DOMAIN results[r].models[i].fields :
            LET declared == PropertySchema(document, results[r].models[i].name, j).default
            IN  results[r].models[i].fields[j].default =
                    IF declared = None \/ declared = Some(JNull) THEN None ELSE declared

\* a model was converted with a property of default null next to one of default 0
C13_Witness ==
    /\ results # <<>>
    /\ Len(results[1].models) = 1
    /\ Len(results[1].models[1].fields) = 2
    /\ PropertySchema(document, NameM, 1).default = Some(JNull)
    /\ results[1].models[1].fields[1].default = None
    /\ PropertySchema(document, NameM, 2).default = Some(JInt(0))
    /\ results[1].models[1].fields[2].default = Some(JInt(0))

\* ------------------------------------------------------------------- C14
\* `base` followed by n copies of "_<index>"
RECURSIVE Suffixed(_, _, _)
Suffixed(base, index, n) ==
    IF n = 0 THEN base ELSE Suffixed(base, index, n - 1) \o <<"_">> \o IntToStr(index)

\* C14: every converted enum has one EnumValue per declared literal, in the
\* declared order and with the literal as its value; the member names of one
\* enum are pairwise distinct, and each is its derived name followed by the
\* least number of "_<index>" suffixes that makes it differ from every
\* earlier member name.
C14_EnumMembers ==
    \A r \in DOMAIN results : \A e \in DOMAIN results[r].enums :
        LET literals ==
                OrEmpty(DictGet(_extract_component_schemas(document),
                                results[r].enums[e].name).enum)
            values == results[r].enums[e].values
        IN  /\ Len(values) = Len(literals)
            /\ \A k \in DOMAIN values : values[k].value = literals[k]
            /\ \A k, m \in DOMAIN values : k # m => values[k].name # values[m].name
            /\ \A k \in DOMAIN values : \E n \in 0..(k - 1) :
                /\ values[k].name =
                     Suffixed(_to_enum_member_name(literals[k], k - 1), k - 1, n)
                /\ \A fewer \in 0..(n - 1) :
                     Suffixed(_to_enum_member_name(literals[k], k - 1), k - 1, fewer)
                       \in {values[m].name : m \in 1..(k - 1)}

\* an enum was converted whose third literal derives the name of the second
\* and, with one suffix, the name of the first, so that it carries two suffixes
C14_Witness ==
    /\ results # <<>>
    /\ Len(results[1].enums) = 1
    /\ Len(results[1].enums[1].values) = 3
    /\ results[1].enums[1].values[1].name = <<"A", "_", "2">>
    /\ results[1].enums[1].values[2].name = <<"A">>
    /\ results[1].enums[1].values[3].name = <<"A", "_", "2", "_", "2">>

\* ------------------------------------------------------------------- C15
\* the id the rule of the claim synthesizes
SynthesizedId(is_webhook, method, path) ==
    LET prefix == IF is_webhook THEN <<"w", "e", "b", "h", "o", "o", "k">> ELSE <<"o", "p">>
        normalized == IF StartsWith(path, _PATH_OPERATIONS_PREFIX)
                      THEN SubSeq(path, Len(_PATH_OPERATIONS_PREFIX) + 1, Len(path))
                      ELSE path
        joined == prefix \o <<"_">> \o method \o <<"_">> \o normalized
        unbraced == SelectSeq(joined, LAMBDA c : c \notin {"{", "}"})
    IN  Lower(Strip(ReSubRuns(unbraced, {"_"}, FALSE), "_"))

\* the operation the IR holds for a declared operation keeps a declared id and
\* otherwise has the synthesized one
OperationIdRule(api_schema, declared) ==
    LET converted == ConvertedOperations(api_schema, declared) IN
    /\ Len(converted) = 1
    /\ Truthy(declared.operation.operationId)
         => converted[1].operation_id = declared.operation.operationId[1]
    /\ declared.operation.operationId = None
         => converted[1].operation_id =
              SynthesizedId(declared.is_webhook, declared.method, declared.key)

\* GET /pets/{id} without a declared operationId
IsGetPetsId(declared) ==
    /\ ~declared.is_webhook
    /\ declared.method = Get
    /\ declared.key = PathPetsId
    /\ declared.operation.operationId = None

PrimaryEntry(content) ==
    IF \E i \in DOMAIN content : content[i].key = Json
    THEN content[CHOOSE i \in DOMAIN content : content[i].key = Json]
    ELSE content[1]

\* the one operation the IR holds for a declared operation
TheOperation(api_schema, declared) == ConvertedOperations(api_schema, declared)[1]

\* C16: a request body and a parameter whose own schema resolves to Any take
\* their type (the request body its content_type too) from the entry of the
\* content map keyed application/json when there is one, wherever it stands,
\* and from the first entry otherwise; an empty or undeclared content map
\* selects nothing: the request body is dropped and the parameter stays Any.
C16_PrimaryMediaType ==
    \A r \in DOMAIN results : \A declared \in DeclaredOperations(document) :
        /\ \A b \in DOMAIN declared.operation.requestBody :
            LET body == declared.operation.requestBody[b]
                converted == TheOperation(results[r], declared).request_body
            IN  body.ref = None =>
                    IF OrEmpty(body.content) = <<>> THEN converted = None
                    ELSE /\ converted # None
                         /\ converted[1].content_type = PrimaryEntry(body.content[1]).key
                         /\ converted[1].type =
                              _to_type_ref(PrimaryEntry(body.content[1]).value.schema,
                                           ContextOf(document))
        /\ \A p \in DOMAIN OrEmpty(declared.operation.parameters) :
            LET raw == declared.operation.parameters[1][p] IN
            (/\ Len(declared.operation.parameters[1]) = 1 /\ declared.path_level = <<>>
             /\ IsKept(raw)
             /\ _to_type_ref(raw.schema, ContextOf(document)).kind = "Any") =>
                TheOperation(results[r], declared).parameters[1].type =
                    IF OrEmpty(raw.content) = <<>> THEN AnyType(FALSE)
                    ELSE _to_type_ref(PrimaryEntry(raw.content[1]).value.schema,
                                      ContextOf(document))

\* a request body was converted whose content map lists application/json
\* second, after an entry with another schema
C16_Witness ==
    /\ results # <<>>
    /\ \E declared \in DeclaredOperations(document) :
        /\ declared.operation.requestBody # None
        /\ declared.operation.requestBody[1].ref = None
        /\ Len(OrEmpty(declared.operation.requestBody[1].content)) = 2
        /\ declared.operation.requestBody[1].content[1][2].key = Json
        /\ declared.operation.requestBody[1].content[1][1].value.schema = Some(StringSchema)
        /\ declared.operation.requestBody[1].content[1][2].value.schema = Some(NullableInteger)
        /\ TheOperation(results[1], declared).request_body[1].content_type = Json
        /\ TheOperation(results[1], declared).request_body[1].type.kind = "Integer"

\* ------------------------------------------------------------------- C17
\* the declared responses that are not references
PlainResponses(operation) ==
    SelectSeq(OrEmpty(operation.responses), LAMBDA entry : entry.value.ref = None)

\* C17: the responses of every converted operation are those of the declared
\* responses that are not references, in order; the content of each has the
\* keys of the declared content map, each with the TypeRef of the media
\* type's schema, Any when it declares none.
C17_ResponseContent ==
    \A r \in DOMAIN results : \A declared \in DeclaredOperations(document) :
        LET plain == PlainResponses(declared.operation)
            responses == TheOperation(results[r], declared).responses
        IN  /\ Len(responses) = Len(plain)
            /\ \A k \in DOMAIN responses :
                LET content == OrEmpty(plain[k].value.content) IN
                /\ responses[k].status_code = plain[k].key
                /\ DictKeys(responses[k].content) = DictKeys(content)
                /\ \A m \in DOMAIN content :
                    responses[k].content[m].value =
                        IF content[m].value.schema = None THEN AnyType(FALSE)
                        ELSE _to_type_ref(content[m].value.schema, ContextOf(document))

\* an operation was converted whose first response declares two media types,
\* neither application/json first nor both with a schema, and whose second
\* response is a reference
C17_Witness ==
    /\ results # <<>>
    /\ \E declared \in DeclaredOperations(document) :
        /\ Len(OrEmpty(declared.operation.responses)) = 3
        /\ declared.operation.responses[1][1].value.ref = None
        /\ Len(OrEmpty(declared.operation.responses[1][1].value.content)) = 2
        /\ declared.operation.responses[1][1].value.content[1][1].key = Text
        /\ declared.operation.responses[1][1].value.content[1][1].value.schema = None
        /\ declared.operation.responses[1][1].value.content[1][2].key = Json
        /\ declared.operation.responses[1][2].value.ref # None
        /\ Len(TheOperation(results[1], declared).responses) = 2
        /\ Len(TheOperation(results[1], declared).responses[1].content) = 2

\* ------------------------------------------------------------------- C18
\* C18: the request body of a converted operation is absent when the source
\* declares none, a reference, or no entry in its content map; otherwise it is
\* present with the content type and the type of the primary media type and
\* with the declared `required` flag.
C18_RequestBody ==
    \A r \in DOMAIN results : \A declared \in DeclaredOperations(document) :
        LET body == declared.operation.requestBody
            converted == TheOperation(results[r], declared).request_body
        IN  IF \/ body = None
               \/ body[1].ref # None
               \/ body[1].content = None
               \/ body[1].content = Some(<<>>)
            THEN converted = None
            ELSE /\ converted # None
                 /\ converted[1].required = body[1].required
                 /\ converted[1].content_type =
                      _pick_primary_media_type(body[1].content[1])[1][1]
                 /\ converted[1].type =
                      _to_type_ref(_pick_primary_media_type(body[1].content[1])[1][2].schema,
                                   ContextOf(document))

\* an operation was converted whose request body is a reference that also
\* declares content and is required
C18_Witness ==
    /\ results # <<>>
    /\ \E declared \in DeclaredOperations(document) :
        /\ declared.operation.requestBody # None
        /\ declared.operation.requestBody[1].ref # None
        /\ Truthy(declared.operation.requestBody[1].content)
        /\ declared.operation.requestBody[1].required
        /\ TheOperation(results[1], declared).request_body = None

\* ------------------------------------------------- the pipeline entry points
\* a document with an enum, a model and one path operation
PipelineDocument ==
    [OpenAPI EXCEPT
        !.components = Some([Components EXCEPT !.schemas = Some(<<
            Item(NameB, [Schema EXCEPT !.properties = Some(<<Item("s", SchemaRef(NameA))>>)]),
            Item(NameA, [Schema EXCEPT !.enum = Some(<<JStr(<<"o", "n">>)>>)])>>)]),
        !.paths = Some(<<Item(PathPets, [PathItem EXCEPT
                                           !.slots = <<Item(Get, RawOperation)>>])>>)]

VersionPool ==
    { <<"3", ".", "0", ".", "3">>,
      <<" ", "3", ".", "1", ".", "0", "\n">>,
      <<"3", ".", "2", ".", "0", "-", "r", "c", ".", "1">>,
      <<"0", "3", ".", "7", ".", "0", "+", "b">>,
      <<"3", ".", "0", "1", ".", "5">>,
      <<"3", ".", "1", "0", ".", "0">>,
      <<"1", "3", ".", "1", ".", "0">>,
      <<"2", ".", "0", ".", "0">>,
      <<"4", ".", "1", ".", "0">>,
      <<"3", ".", "0">>,
      <<"v", "3", ".", "0", ".", "0">>,
      <<"3", ".", "0", ".", "0", "-">>,
      <<"3", ".", "1", ".", "0", " ", "x">>,
      <<"3", ".", ".", "0">>,
      <<>> }

TypedDocument ==
    [RawDocument EXCEPT !.form = "OpenAPIObject", !.model = "oas310.OpenAPI",
                        !.spec = PipelineDocument]

RawDocumentPool ==
    {TypedDocument, [RawDocument EXCEPT !.form = "other"]}
    \cup {[RawDocument EXCEPT !.form = form, !.json_ok = FALSE] : form \in {"str", "bytes"}}
    \cup {[RawDocument EXCEPT !.form = form, !.root_object = FALSE]
          : form \in {"str", "bytes"}}
    \cup {[RawDocument EXCEPT !.form = form, !.version.kind = kind]
          : form \in {"dict", "str", "bytes"}, kind \in {"missing", "number"}}
    \cup {[RawDocument EXCEPT !.form = form, !.version = VersionString(version),
                              !.valid = valid, !.spec = PipelineDocument]
          : form \in {"dict", "str", "bytes"}, version \in VersionPool, valid \in BOOLEAN}

\* sequences without repetition of at most n elements of S
OrdersUpTo(S, n) == UNION {SetOrders(T) : T \in {U \in SUBSET S : Cardinality(U) <= n}}

VisitorPool == {None, Some("NodeVisitor"), Some("Retitle")}

\* every raw document handed to every entry point, and well-formed documents
\* handed to the two pipelines with every choice of nodes, factories and visitor
Calls ==
    {Call("from_openapi_document", raw, <<>>, <<>>, None) : raw \in RawDocumentPool}
    \cup
    {Call(entry, raw, <<ExtraModel>>, <<"single">>, Some("Retitle"))
     : entry \in {"build_schema_pipeline", "run_generation_pipeline"},
       raw \in RawDocumentPool}
    \cup
    {Call(entry, raw, custom_nodes, custom_node_factories, visitor)
     : entry \in {"build_schema_pipeline", "run_generation_pipeline"},
       raw \in {TypedDocument,
                [RawDocument EXCEPT !.form = "str", !.spec = PipelineDocument,
                                    !.version = VersionString(<<"3", ".", "0", ".", "3">>)]},
       custom_nodes \in OrdersUpTo({ExtraModel, ExtraWebhook, CustomNode(<<>>)}, MaxNodes),
       custom_node_factories \in OrdersUpTo({"none", "single", "several"}, MaxFactories),
       visitor \in VisitorPool}

PipelineInit ==
    /\ document = OpenAPI
    /\ results = <<>>
    /\ pipeline \in {Pipeline(call) : call \in Calls}
    /\ walk = NoWalk

\* what the state records of a step: the trace grows by one event
Step(state, step, index, seen) ==
    [state EXCEPT !.trace = Append(@, Event(step, index, seen))]

\* lines 24-27 and 55-58, for the outcome of decode_openapi_document
AfterDecode(state, decoded) ==
    IF decoded.ok
    THEN [state EXCEPT !.pc = "decoded", !.openapi = decoded.value]
    ELSE [state EXCEPT !.pc = "raised",
                       !.outcome = Some(Raised_(ConversionError(decoded.error[1])))]

\* decode_openapi_document(document) at the head of every entry point
Decode ==
    /\ pipeline.pc = "start"
    /\ pipeline' = AfterDecode(Step(pipeline, "decode", 0, None),
                               decode_openapi_document(pipeline.call.raw))
    /\ UNCHANGED <<document, results, walk>>

\* line 28 and line 59, for the IR that from_openapi returns
AfterConvert(state, api_schema) ==
    IF state.call.entry = "from_openapi_document"
    THEN [state EXCEPT !.pc = "returned", !.schema = Some(api_schema),
                       !.outcome = Some(Returned_(api_schema))]
    ELSE [state EXCEPT !.pc = "converted", !.schema = Some(api_schema)]

\* from_openapi(openapi); from_openapi_document returns its result
Convert ==
    /\ pipeline.pc = "decoded"
    /\ \E enum_iter \in SetOrders(ContextOf(pipeline.openapi[1].spec).enum_names),
          model_iter \in SetOrders(ContextOf(pipeline.openapi[1].spec).model_names) :
            pipeline' = AfterConvert(
                Step(pipeline, "convert", 0, None),
                _convert_openapi(pipeline.openapi[1].spec, enum_iter, model_iter))
    /\ UNCHANGED <<document, results, walk>>

\* lines 63-64: the loop over the static nodes
AddCustomNodes ==
    /\ pipeline.pc = "converted"
    /\ pipeline' =
         [pipeline EXCEPT
            !.pc = "factories",
            !.factory = 1,
            !.schema = Some(add_nodes(pipeline.schema[1], pipeline.call.custom_nodes)),
            !.trace = @ \o [i \in DOMAIN pipeline.call.custom_nodes |->
                              Event("add_node", i, None)]]
    /\ UNCHANGED <<document, results, walk>>

\* lines 66-76: one round of the loop, the call of the next factory
CallFactory ==
    /\ pipeline.pc = "factories"
    /\ pipeline.factory <= Len(pipeline.call.custom_node_factories)
    /\ pipeline' =
         [Step(pipeline, "factory", pipeline.factory, pipeline.schema) EXCEPT
            !.factory = @ + 1,
            !.schema = Some(ApplyProduced(
                pipeline.schema[1],
                Produced(pipeline.call.custom_node_factories[pipeline.factory],
                         pipeline.schema[1])))]
    /\ UNCHANGED <<document, results, walk>>

\* apply_custom_nodes has returned
Enriched(state) ==
    state.pc = "factories" /\ state.factory > Len(state.call.custom_node_factories)

\* lines 31-32
Visit ==
    /\ Enriched(pipeline)
    /\ pipeline.call.visitor # None
    /\ pipeline' =
         [Step(pipeline, "visit", 0, pipeline.schema) EXCEPT
            !.pc = "visited",
            !.schema = Some(Visited(pipeline.call.visitor[1], pipeline.schema[1]))]
    /\ UNCHANGED <<document, results, walk>>

\* the visitor, if any, has run
ReadyToReturn(state) ==
    \/ state.pc = "visited"
    \/ Enriched(state) /\ state.call.visitor = None

\* line 34: build_schema_pipeline returns to its caller
ReturnSchema ==
    /\ pipeline.call.entry = "build_schema_pipeline"
    /\ ReadyToReturn(pipeline)
    /\ pipeline' =
         [pipeline EXCEPT
            !.pc = "returned",
            !.outcome = Some(Returned_(GenerationResult(pipeline.openapi[1],
                                                        pipeline.schema[1], None)))]
    /\ UNCHANGED <<document, results, walk>>

\* lines 52-53
Generate ==
    /\ pipeline.call.entry = "run_generation_pipeline"
    /\ ReadyToReturn(pipeline)
    /\ pipeline' =
         [Step(pipeline, "generate", 0, pipeline.schema) EXCEPT
            !.pc = "returned",
            !.outcome = Some(Returned_(GenerationResult(
                                 pipeline.openapi[1], pipeline.schema[1],
                                 Some(Generated(pipeline.schema[1])))))]
    /\ UNCHANGED <<document, results, walk>>

PipelineNext ==
    \/ Decode
    \/ Convert
    \/ AddCustomNodes
    \/ CallFactory
    \/ Visit
    \/ ReturnSchema
    \/ Generate

PipelineSpec == PipelineInit /\ [][PipelineNext]_vars

\* ------------------------------------------------------------------- C19
\* the steps of run_generation_pipeline in the order the claim gives, each
\* with the index of the node or factory it is about
ExpectedSteps(call) ==
    <<<<"decode", 0>>, <<"convert", 0>>>>
    \o [i \in DOMAIN call.custom_nodes |-> <<"add_node", i>>]
    \o [i \in DOMAIN call.custom_node_factories |-> <<"factory", i>>]
    \o (IF call.visitor # None THEN <<<<"visit", 0>>>> ELSE <<>>)
    \o <<<<"generate", 0>>>>

StepsOf(trace) == [i \in DOMAIN trace |-> <<trace[i].step, trace[i].index>>]

IsPrefix(a, b) == Len(a) <= Len(b) /\ SubSeq(b, 1, Len(a)) = a

\* the registry of an APISchema that holds the nodes of a kind
RegistryOf(api_schema, kind) ==
    CASE kind = "Model" -> api_schema.models
      [] kind = "Enum" -> api_schema.enums
      [] kind = "Endpoint" -> api_schema.endpoints
      [] kind = "Webhook" -> api_schema.webhooks
      [] OTHER -> api_schema.custom_nodes

Holds(api_schema, node) == node.node \in Range(RegistryOf(api_schema, node.kind))

\* the nodes the factory called at event j of a trace returned
ProducedAt(call, trace, j) ==
    Range(Produced(call.custom_node_factories[trace[j].index], trace[j].seen[1]).nodes)

\* the IR root handed to the callback of event i holds every static node and
\* every node an earlier factory returned
SeesEarlierNodes(call, trace, i) ==
    /\ \A node \in Range(call.custom_nodes) : Holds(trace[i].seen[1], node)
    /\ \A j \in 1..(i - 1) :
        trace[j].step = "factory" =>
            \A node \in ProducedAt(call, trace, j) : Holds(trace[i].seen[1], node)

\* C19: in every invocation of run_generation_pipeline the steps taken so far
\* are an initial part of: decode, convert, one add per static node, the
\* factories in the given order, the visitor if one is supplied, generate; each
\* factory, the visitor and the generator receive an IR root that holds the
\* static nodes and the nodes of the earlier factories, the generator the root
\* the visitor left; the result carries the decoded document, that root and
\* the generator's mapping.
C19_PipelineOrdering ==
    pipeline.call.entry = "run_generation_pipeline" =>
        /\ IsPrefix(StepsOf(pipeline.trace), ExpectedSteps(pipeline.call))
        /\ \A i \in DOMAIN pipeline.trace :
            pipeline.trace[i].step \in {"factory", "visit", "generate"}
                => SeesEarlierNodes(pipeline.call, pipeline.trace, i)
        /\ \A i \in DOMAIN pipeline.trace :
            (pipeline.trace[i].step = "generate" /\ pipeline.trace[i - 1].step = "visit")
                => pipeline.trace[i].seen[1] =
                     Visited(pipeline.call.visitor[1], pipeline.trace[i - 1].seen[1])
        /\ (pipeline.pc = "returned") =>
            /\ StepsOf(pipeline.trace) = ExpectedSteps(pipeline.call)
            /\ ~pipeline.outcome[1].raised
            /\ pipeline.outcome[1].value[1].openapi =
                 decode_openapi_document(pipeline.call.raw).value[1]
            /\ pipeline.outcome[1].value[1].schema =
                 pipeline.trace[Len(pipeline.trace)].seen[1]
            /\ pipeline.outcome[1].value[1].files =
                 Some(Generated(pipeline.trace[Len(pipeline.trace)].seen[1]))

\* run_generation_pipeline returned after two static nodes, a factory that
\* returned a list, a factory that returned one node, and a visitor that
\* changed the root
C19_Witness ==
    /\ pipeline.call.entry = "run_generation_pipeline"
    /\ pipeline.pc = "returned"
    /\ Len(pipeline.call.custom_nodes) = 2
    /\ pipeline.call.custom_node_factories = <<"several", "single">>
    /\ pipeline.call.visitor = Some("Retitle")
    /\ pipeline.outcome[1].value[1].schema.title = "visited"
    /\ Len(pipeline.outcome[1].value[1].schema.custom_nodes) >= 1

\* ------------------------------------------------------------------- C20
\* version strings that do not have the form MAJOR.MINOR.PATCH[-+suffix]
MalformedVersions ==
    { <<"3", ".", "0">>, <<"v", "3", ".", "0", ".", "0">>, <<"3", ".", "0", ".", "0", "-">>,
      <<"3", ".", "1", ".", "0", " ", "x">>, <<"3", ".", ".", "0">>, <<>> }

\* well-formed version strings of another major version
UnsupportedMajorVersions == { <<"2", ".", "0", ".", "0">>, <<"4", ".", "1", ".", "0">> }

\* the raw documents the claim lists as failing to decode
FailsToDecode(raw) ==
    /\ raw.form \in {"dict", "str", "bytes"}
    /\ \/ raw.form \in {"str", "bytes"} /\ ~raw.json_ok
       \/ raw.form \in {"str", "bytes"} /\ ~raw.root_object
       \/ raw.version.kind # "str"
       \/ raw.version.text \in MalformedVersions
       \/ raw.version.text \in UnsupportedMajorVersions
       \/ ~raw.valid

\* C20: when the raw document fails to decode, every entry point ends by
\* raising a ConversionError whose cause is the parse error and whose message
\* is the parse error's, and decoding is the only step taken: no conversion,
\* no factory, no visitor and no generator call.
C20_PipelineFailure ==
    (FailsToDecode(pipeline.call.raw) /\ pipeline.pc # "start") =>
        /\ pipeline.pc = "raised"
        /\ StepsOf(pipeline.trace) = <<<<"decode", 0>>>>
        /\ pipeline.schema = None
        /\ pipeline.outcome # None
        /\ pipeline.outcome[1].raised
        /\ pipeline.outcome[1].error[1].type = "ConversionError"
        /\ pipeline.outcome[1].error[1].cause # None
        /\ pipeline.outcome[1].error[1].cause[1].type = "OpenAPIParseError"
        /\ pipeline.outcome[1].error[1].text = pipeline.outcome[1].error[1].cause[1].text
        /\ pipeline.outcome[1].error[1].detail = pipeline.outcome[1].error[1].cause[1].detail

\* run_generation_pipeline raised on a JSON text that has a supported version
\* but does not validate against its model, with a factory and a visitor given
C20_Witness ==
    /\ pipeline.pc = "raised"
    /\ pipeline.call.entry = "run_generation_pipeline"
    /\ pipeline.call.raw.form = "str"
    /\ pipeline.call.raw.version = VersionString(<<"3", ".", "0", ".", "3">>)
    /\ ~pipeline.call.raw.valid
    /\ pipeline.call.custom_node_factories # <<>>
    /\ pipeline.call.visitor # None

\* ------------------------------------------------------------------- C21
\* the registries of the IR root
Registries == {"models", "enums", "endpoints", "webhooks", "custom_nodes"}

\* the registry the claim gives to a kind of node
RegistryNameOf(kind) ==
    CASE kind = "Model" -> "models"
      [] kind = "Enum" -> "enums"
      [] kind = "Endpoint" -> "endpoints"
      [] kind = "Webhook" -> "webhooks"
      [] OTHER -> "custom_nodes"

\* the nodes of a sequence that belong to one registry, in their order
NodesFor(nodes, registry) ==
    LET chosen == SelectSeq(nodes, LAMBDA node : RegistryNameOf(node.kind) = registry)
    IN [i \in DOMAIN chosen |-> chosen[i].node]

\* after is before with each of the nodes at the end of the registry of its
\* kind, in the order of nodes, and nothing else changed
Routed(before, after, nodes) ==
    /\ \A registry \in Registries :
        after[registry] = before[registry] \o NodesFor(nodes, registry)
    /\ after.title = before.title
    /\ after.version = before.version
    /\ after.description = before.description

\* what a factory's return value adds: nothing for None, the node for a
\* node, the elements for a sequence
ReturnedNodes(factory, api_schema) ==
    CASE factory = "none" -> <<>>
      [] factory = "single" -> <<Produced(factory, api_schema).nodes[1]>>
      [] OTHER -> Produced(factory, api_schema).nodes

\* C21: every step that adds nodes to the IR root (the static nodes, or what
\* one factory returned) appends each node to the end of the registry of its
\* kind, models, enums, endpoints, webhooks, and custom_nodes for any other
\* kind, in the order given, and leaves the entries already there and the
\* other registries as they were; a factory that returns nothing adds nothing,
\* one that returns a node adds that node, one that returns a sequence adds
\* its elements in order.
C21_NodeRouting ==
    [][/\ AddCustomNodes =>
            Routed(pipeline.schema[1], pipeline'.schema[1], pipeline.call.custom_nodes)
       /\ CallFactory =>
            Routed(pipeline.schema[1], pipeline'.schema[1],
                   ReturnedNodes(pipeline.call.custom_node_factories[pipeline.factory],
                                 pipeline.schema[1]))]_vars

\* a static model and a static custom node were added, then a factory
\* returned a sequence with two enums around an endpoint, then a factory
\* returned one custom node: it stands after the static one, the two enums
\* stand in their order after the converted enum
C21_Witness ==
    /\ Enriched(pipeline)
    /\ pipeline.call.custom_nodes = <<ExtraModel, CustomNode(<<>>)>>
    /\ pipeline.call.custom_node_factories = <<"several", "single">>
    /\ Len(pipeline.schema[1].enums) = 3
    /\ SubSeq(pipeline.schema[1].enums, 2, 3) = <<ExtraEnum.node, OtherEnum.node>>
    /\ Len(pipeline.schema[1].custom_nodes) = 2
    /\ pipeline.schema[1].custom_nodes[1] = CustomNode(<<>>).node
    /\ pipeline.schema[1].models[Len(pipeline.schema[1].models)] = ExtraModel.node

\* ------------------------------------------------------- a visitor at work
\* a document whose IR has nodes in single fields, in lists and in a dict
VisitorDocument ==
    [OpenAPI EXCEPT
        !.components = Some([Components EXCEPT !.schemas = Some(<<
            Item(NameB, [Schema EXCEPT !.properties = Some(<<
                Item("s", SchemaRef(NameA)),
                Item("t", [Schema EXCEPT !.type = Some(TypeStr("array")),
                                         !.items = Some(StringSchema),
                                         !.default = Some(JList)]),
                Item("u", [Schema EXCEPT !.oneOf =
                              Some(<<IntegerSchema, SchemaRef(NameB)>>)])>>)]),
            Item(NameA, [Schema EXCEPT !.enum = Some(<<JStr(<<"o", "n">>)>>)])>>)]),
        !.paths = Some(<<Item(PathPets, [PathItem EXCEPT
            !.parameters = Some(<<[RawParameter EXCEPT
                                      !.name = Some("id"), !.in_ = Some("path"),
                                      !.schema = Some(StringSchema)]>>),
            !.slots = <<Item(Get, [RawOperation EXCEPT
                !.tags = Some(<<"x">>),
                !.requestBody = Some([RawRequestBody EXCEPT !.content = Some(<<
                    Item(Json, [MediaType EXCEPT !.schema = Some(SchemaRef(NameB))])>>)]),
                !.responses = Some(<<Item("200", [RawResponse EXCEPT !.content = Some(<<
                    Item(Json, [MediaType EXCEPT !.schema = Some(
                        [Schema EXCEPT !.additionalProperties =
                            Some(AdditionalSchema(IntegerSchema))])]),
                    Item(Text, MediaType)>>)])>>)])>>])>>),
        !.webhooks = Some(<<Item(HookA, [PathItem EXCEPT
                                           !.slots = <<Item(Post, RawOperation)>>])>>)]

\* from_openapi(document) as the root of a tree of nodes
RootOf(spec) ==
    Node("APISchema",
         _convert_openapi(spec, sorted(CHOOSE order \in SetOrders(ContextOf(spec).enum_names) : TRUE),
                          sorted(CHOOSE order \in SetOrders(ContextOf(spec).model_names) : TRUE)))

\* the roots a visitor is run on: an empty IR, the IR of two documents, and
\* one of them enriched with a model and a custom node
RootPool ==
    {RootOf(OpenAPI), RootOf(PipelineDocument), RootOf(VisitorDocument),
     Node("APISchema", add_nodes(RootOf(VisitorDocument).node,
                                 <<ExtraModel, CustomNode(<<>>)>>))}

\* the classes the visitors have handlers for
HandlerClasses == <<"APISchema", "Model", "Field", "Operation", "ArrayType">>

\* the base NodeVisitor and the subclasses with at most MaxHandlers handlers
VisitorClasses ==
    UNION {
        {Handlers(SelectSeq(HandlerClasses, LAMBDA class : class \in chosen), how)
         : how \in [1..Cardinality(chosen) -> {"prune", "recurse"}]}
        : chosen \in {T \in SUBSET Range(HandlerClasses) : Cardinality(T) <= MaxHandlers}}

VisitorInit ==
    /\ document = OpenAPI
    /\ results = <<>>
    /\ pipeline = Idle
    /\ walk \in {Walk(root, handlers) : root \in RootPool, handlers \in VisitorClasses}

\* lines 32-34: visit(node) finds the handler and calls it
visit ==
    /\ walk.stack # <<>>
    /\ Top(walk.stack).at = "visit"
    /\ walk' = [walk EXCEPT
                  !.log = Append(@, Entry("visit", Top(walk.stack))),
                  !.stack = Append(Pop(@), Dispatch(walk.handlers, Top(walk.stack)))]
    /\ UNCHANGED <<document, results, pipeline>>

\* a visit_<ClassName> handler runs up to the place of its call of
\* generic_visit, and makes the call if it has one
EnterHandler ==
    /\ walk.stack # <<>>
    /\ Top(walk.stack).at = "handler"
    /\ walk' = [walk EXCEPT
                  !.log = Append(@, Entry("before", Top(walk.stack))),
                  !.stack =
                     Append(Pop(@), [Top(walk.stack) EXCEPT !.at = "resume"])
                     \o (IF DictGet(walk.handlers, Top(walk.stack).node.kind) = "recurse"
                         THEN <<Frame("generic_visit", Top(walk.stack).path,
                                      Top(walk.stack).node)>>
                         ELSE <<>>)]
    /\ UNCHANGED <<document, results, pipeline>>

\* the handler runs its remaining code and returns
LeaveHandler ==
    /\ walk.stack # <<>>
    /\ Top(walk.stack).at = "resume"
    /\ walk' = [walk EXCEPT
                  !.log = Append(@, Entry("after", Top(walk.stack))),
                  !.stack = Pop(@)]
    /\ UNCHANGED <<document, results, pipeline>>

\* lines 38-49: generic_visit(node) hands its next child to visit, or returns
generic_visit ==
    /\ walk.stack # <<>>
    /\ Top(walk.stack).at = "generic_visit"
    /\ walk' = [walk EXCEPT
                  !.stack = GenericStep(@, Top(walk.stack),
                                        VisitedBy(FieldValues(Top(walk.stack).node)))]
    /\ UNCHANGED <<document, results, pipeline>>

VisitorNext ==
    \/ visit
    \/ EnterHandler
    \/ LeaveHandler
    \/ generic_visit

\* the interpreter runs a call to its end
VisitorSpec == VisitorInit /\ [][VisitorNext]_vars /\ WF_vars(VisitorNext)

\* visitor.visit(root) has returned
Finished(state) == state.pc = "walking" /\ state.stack = <<>>

\* ------------------------------------------------------------------- C22
\* the child nodes of a node as the claim gives them: the nodes held in its
\* fields, whether as the value, in a list or as a value of a dict
ChildrenIn(fields) ==
    Concat([i \in DOMAIN fields |-> SelectSeq(fields[i].values, IsNode)])

ChildNodes(node) == ChildrenIn(FieldValues(node))

\* the node a path of child numbers leads to
RECURSIVE NodeAt(_, _)
NodeAt(node, path) ==
    IF path = <<>> THEN node ELSE NodeAt(ChildNodes(node)[Head(path)], Tail(path))

\* the paths of all nodes reachable from a node that stands at path
RECURSIVE PathsFrom(_, _)
PathsBelow(children, path) ==
    UNION {PathsFrom(children[k], Append(path, k)) : k \in DOMAIN children}

PathsFrom(node, path) == {path} \cup PathsBelow(ChildNodes(node), path)

\* the entries of a log that record a call of visit
VisitEntries(log) == {i \in DOMAIN log : log[i].what = "visit"}

\* the call of visit recorded at entry i has returned
HasReturned(state, i) ==
    \A f \in DOMAIN state.stack :
        ~IsPrefix(state.log[i].path, state.stack[f].path)

\* the calls of visit on the children of the node of entry i, in their order
VisitsOfChildren(log, i) ==
    SelectSeq(log, LAMBDA entry : /\ entry.what = "visit"
                                  /\ Len(entry.path) = Len(log[i].path) + 1
                                  /\ IsPrefix(log[i].path, entry.path))

\* visits are the calls of visit on the children 1..count of the node at
\* path, one each and in order
EachChildOnce(visits, path, count) ==
    [k \in DOMAIN visits |-> visits[k].path] = [k \in 1..count |-> Append(path, k)]

\* the entry records a call of visit on a node of the tree
OnNode(entry, node) == entry.kind = node.kind /\ entry.kind \in NodeClasses

\* what the log of a run shows of dispatch and of the default handler; paths
\* are the paths of the nodes reachable from the root
DispatchRule(state, paths) ==
    \* only nodes of the tree are visited, never a scalar
    /\ \A i \in VisitEntries(state.log) :
        /\ state.log[i].path \in paths
        /\ OnNode(state.log[i], NodeAt(state.root, state.log[i].path))
    \* a node of a class with a handler goes to the handler, any other node
    \* to the default handler
    /\ \A i \in DOMAIN state.log :
        state.log[i].what \in {"before", "after"}
            => DictHas(state.handlers, state.log[i].kind)
    /\ \A i \in VisitEntries(state.log) :
        (DictHas(state.handlers, state.log[i].kind) /\ i < Len(state.log))
            => /\ state.log[i + 1].what = "before"
               /\ state.log[i + 1].path = state.log[i].path
    \* the default handler visits every child node, in order, once
    /\ \A i \in VisitEntries(state.log) :
        (~DictHas(state.handlers, state.log[i].kind) /\ HasReturned(state, i))
            => EachChildOnce(VisitsOfChildren(state.log, i), state.log[i].path,
                             Len(ChildNodes(NodeAt(state.root, state.log[i].path))))

\* with no custom handler no node is visited twice, and when visit(root) has
\* returned every node reachable from the root has been visited
VisitsAllOnce(state, paths) ==
    state.handlers = <<>> =>
        /\ \A i, j \in VisitEntries(state.log) :
            state.log[i].path = state.log[j].path => i = j
        /\ Finished(state) =>
            {state.log[i].path : i \in VisitEntries(state.log)} = paths

\* the two together, for a run of the visitor
VisitsAsClaimed(state, paths) == DispatchRule(state, paths) /\ VisitsAllOnce(state, paths)

\* C22: visit(node) calls the handler registered for the class of the node
\* if there is one and the default handler otherwise; the default handler
\* visits every child node held in a single-node field, in a list field or
\* as a value of a dict field, and no scalar; with no custom handlers
\* visit(root) visits every node reachable from the root exactly once, and
\* returns.
C22_VisitorDispatch ==
    /\ [](walk.pc = "walking" => VisitsAsClaimed(walk, PathsFrom(walk.root, <<>>)))
    /\ <>(walk.handlers = <<>> => Finished(walk))

\* the base visitor has returned from the enriched IR: it went through the
\* request body (a single field), the response content (a dict) down to the
\* value type of a map, the variants of a union (a list) and the custom node
C22_Witness ==
    /\ Finished(walk)
    /\ walk.handlers = <<>>
    /\ walk.root.node.custom_nodes # <<>>
    /\ {"RequestBody", "MapType", "IntegerType", "UnionType", "ModelRef", "Custom",
        "EnumValue", "Parameter"}
         \subseteq {walk.log[i].kind : i \in DOMAIN walk.log}
    /\ \E i \in DOMAIN walk.log :
        walk.log[i].kind = "Response" /\ Len(VisitsOfChildren(walk.log, i)) = 2

\* ------------------------------------------------------------------- C23
\* the claim's pattern, read off a version string from left to right: the
\* text up to the first "-" or "+", and the text from it on
RECURSIVE UpToSign(_)
UpToSign(s) ==
    IF s = <<>> \/ Head(s) \in {"-", "+"} THEN <<>> ELSE <<Head(s)>> \o UpToSign(Tail(s))

FromSign(s) == DropPrefix(s, Len(UpToSign(s)))

\* the parts of a text between its dots
RECURSIVE SplitDots(_, _)
SplitDots(s, part) ==
    IF s = <<>> THEN <<part>>
    ELSE IF Head(s) = "." THEN <<part>> \o SplitDots(Tail(s), <<>>)
    ELSE SplitDots(Tail(s), Append(part, Head(s)))

IsNumber(part) == part # <<>> /\ \A i \in DOMAIN part : IsDigit(part[i])

\* MAJOR.MINOR.PATCH of a text without surrounding white space
CoreParts(text) == SplitDots(UpToSign(RStripSpaces(LStripSpaces(text))), <<>>)

\* MAJOR.MINOR.PATCH with an optional suffix that starts with "-" or "+"
MatchesVersionPattern(text) ==
    /\ Len(CoreParts(text)) = 3
    /\ \A i \in 1..3 : IsNumber(CoreParts(text)[i])
    /\ FromSign(RStripSpaces(LStripSpaces(text))) # <<>> =>
        /\ Len(FromSign(RStripSpaces(LStripSpaces(text)))) >= 2
        /\ \A i \in 2..Len(FromSign(RStripSpaces(LStripSpaces(text)))) :
            \/ IsAlnum(FromSign(RStripSpaces(LStripSpaces(text)))[i])
            \/ FromSign(RStripSpaces(LStripSpaces(text)))[i] \in {".", "-"}

MajorOf(text) == ToInt(CoreParts(text)[1])
MinorOf(text) == ToInt(CoreParts(text)[2])

\* the model the claim gives to a minor version
ModelOfMinor(minor) ==
    IF minor = 0 THEN "oas300.OpenAPI"
    ELSE IF minor = 1 THEN "oas310.OpenAPI"
    ELSE "oas320.OpenAPI"

\* the raw document is a mapping, or a JSON text of one
IsMapping(raw) ==
    /\ raw.form \in {"dict", "str", "bytes"}
    /\ raw.form \in {"str", "bytes"} => raw.json_ok /\ raw.root_object

\* the call ended with a parse error of the given message and no document
\* was decoded
ParseErrorRaised(state, text) ==
    /\ state.pc = "raised"
    /\ state.openapi = None
    /\ state.outcome[1].error[1].cause[1].type = "OpenAPIParseError"
    /\ state.outcome[1].error[1].cause[1].text = text

\* what the claim says of a version string, for the outcome of
\* resolve_openapi_model on it
Resolves(text, resolved) ==
    IF ~MatchesVersionPattern(text)
    THEN /\ ~resolved.ok
         /\ resolved.error[1] =
              OpenAPIParseError("/openapi: Invalid OpenAPI version format", <<>>)
    ELSE IF MajorOf(text) # 3
    THEN /\ ~resolved.ok
         /\ resolved.error[1].type = "OpenAPIParseError"
         /\ resolved.error[1].text = "/openapi: Unsupported OpenAPI major version: "
    ELSE resolved = Ok(ModelOfMinor(MinorOf(text)))

\* C23: a version string of the form MAJOR.MINOR.PATCH with an optional
\* suffix after "-" or "+" makes resolve_openapi_model fail with a parse
\* error when MAJOR is not 3, and otherwise select the 3.0 model for MINOR 0,
\* the 3.1 model for MINOR 1 and the 3.2 model for any other MINOR; a string
\* of another form, and a document whose `openapi` entry is missing or not a
\* string, fail with a parse error and no model is selected.  A document that
\* decodes is decoded as the model selected.
C23_VersionDispatch ==
    (pipeline.pc \notin {"idle", "start"} /\ IsMapping(pipeline.call.raw)) =>
        IF pipeline.call.raw.version.kind # "str"
        THEN ParseErrorRaised(pipeline,
                              "/openapi: Missing or invalid OpenAPI version string")
        ELSE /\ Resolves(pipeline.call.raw.version.text,
                         resolve_openapi_model(pipeline.call.raw.version.text))
             /\ ~MatchesVersionPattern(pipeline.call.raw.version.text)
                  => ParseErrorRaised(pipeline, "/openapi: Invalid OpenAPI version format")
             /\ (/\ MatchesVersionPattern(pipeline.call.raw.version.text)
                 /\ MajorOf(pipeline.call.raw.version.text) # 3)
                  => ParseErrorRaised(pipeline,
                                      "/openapi: Unsupported OpenAPI major version: ")
             /\ pipeline.openapi # None
                  => pipeline.openapi[1].model =
                       ModelOfMinor(MinorOf(pipeline.call.raw.version.text))

\* a JSON text with version 03.7.0+b was decoded as the 3.2 model
C23_Witness ==
    /\ pipeline.pc = "decoded"
    /\ pipeline.call.raw.form = "str"
    /\ pipeline.call.raw.version = VersionString(<<"0", "3", ".", "7", ".", "0", "+", "b">>)
    /\ pipeline.openapi[1].model = "oas320.OpenAPI"

\* --------------------------------------------- in-place changes of the IR
\* The IR is made of Python objects.  A list or dict the converter builds
\* (Operation.tags is list(...) of the declared tags, line 257; parameters is
\* the list `merged`, lines 270-288) is an object of its own.  Field.default
\* is the object the document holds as the default of the property (lines
\* 146-154 hand it on as it is), so a default that is a list is one list,
\* held by the document and by every Field converted from the property.
\* A list literal is kept by its length.
ListAppend(value) == [value EXCEPT !.n = @ + 1]

IsList(value) == value.t = "list"

\* the properties of a schema with the default of one of them replaced
PropertiesWithDefault(properties, prop_name, value) ==
    [j \in DOMAIN properties |->
        IF properties[j].key = prop_name
        THEN Item(prop_name, [properties[j].value EXCEPT !.default = Some(value)])
        ELSE properties[j]]

\* the component schemas with the default of one property of one of them replaced
SchemasWithDefault(schemas, name, prop_name, value) ==
    [i \in DOMAIN schemas |->
        IF schemas[i].key = name
        THEN Item(name, [schemas[i].value EXCEPT
                            !.properties = Some(PropertiesWithDefault(
                                schemas[i].value.properties[1], prop_name, value))])
        ELSE schemas[i]]

\* the document after a change of the object that is the default of a property
DocumentWithDefault(spec, name, prop_name, value) ==
    [spec EXCEPT !.components =
        Some([spec.components[1] EXCEPT !.schemas =
            Some(SchemasWithDefault(spec.components[1].schemas[1], name, prop_name,
                                    value))])]

\* the fields of a model after that change
FieldsWithDefault(fields, prop_name, value) ==
    [f \in DOMAIN fields |->
        IF fields[f].name = prop_name THEN [fields[f] EXCEPT !.default = Some(value)]
        ELSE fields[f]]

\* an IR after that change: the Field converted from the property holds the
\* same object
SchemaWithDefault(api_schema, name, prop_name, value) ==
    [api_schema EXCEPT !.models =
        [m \in DOMAIN api_schema.models |->
            IF api_schema.models[m].name = name
            THEN [api_schema.models[m] EXCEPT
                    !.fields = FieldsWithDefault(api_schema.models[m].fields, prop_name, value)]
            ELSE api_schema.models[m]]]

\* documents with tags, parameters and defaults of several kinds
MutationDocuments ==
    {PipelineDocument, VisitorDocument,
     DocumentWithDefault(VisitorDocument, NameB, "t", JInt(0)),
     DocumentWithDefault(VisitorDocument, NameB, "s", JList)}

MutationInit ==
    /\ document \in MutationDocuments
    /\ results = <<>>
    /\ pipeline = Idle
    /\ walk = NoWalk

\* operation.tags.append("m") on an operation of a returned IR
AppendTag ==
    /\ \E r \in DOMAIN results :
        \E e \in DOMAIN results[r].endpoints :
            \E o \in DOMAIN results[r].endpoints[e].operations :
                /\ Len(results[r].endpoints[e].operations[o].tags) < MaxTags
                /\ results' = [results EXCEPT
                                 ![r].endpoints[e].operations[o].tags = Append(@, "m")]
    /\ UNCHANGED <<document, pipeline, walk>>

\* operation.parameters.pop() on an operation of a returned IR
DropParameter ==
    /\ \E r \in DOMAIN results :
        \E e \in DOMAIN results[r].endpoints :
            \E o \in DOMAIN results[r].endpoints[e].operations :
                /\ results[r].endpoints[e].operations[o].parameters # <<>>
                /\ results' = [results EXCEPT
                                 ![r].endpoints[e].operations[o].parameters = Pop(@)]
    /\ UNCHANGED <<pipeline, document, walk>>

\* field.default.append(...) on a field of a returned IR whose default is a
\* list: the list is the document's
ExtendDefault ==
    /\ \E r \in DOMAIN results :
        \E m \in DOMAIN results[r].models :
            \E f \in DOMAIN results[r].models[m].fields :
                /\ results[r].models[m].fields[f].default # None
                /\ IsList(results[r].models[m].fields[f].default[1])
                /\ results[r].models[m].fields[f].default[1].n < MaxItems
                /\ results' =
                     [k \in DOMAIN results |->
                        SchemaWithDefault(
                            results[k], results[r].models[m].name,
                            results[r].models[m].fields[f].name,
                            ListAppend(results[r].models[m].fields[f].default[1]))]
                /\ document' =
                     DocumentWithDefault(
                         document, results[r].models[m].name,
                         results[r].models[m].fields[f].name,
                         ListAppend(results[r].models[m].fields[f].default[1]))
    /\ UNCHANGED <<pipeline, walk>>

MutationNext ==
    \/ from_openapi
    \/ AppendTag
    \/ DropParameter
    \/ ExtendDefault

MutationSpec == MutationInit /\ [][MutationNext]_vars

\* ------------------------------------------------------------------- C24
\* C24: the decoded document is never changed, neither by from_openapi nor
\* by a later in-place change of a container of a returned IR.
C24_InputNeverChanges == [][document' = document]_vars

\* ------------------------------------------------------------------- C25
\* a schema that is no reference and lists nothing under oneOf, anyOf, allOf,
\* and whose items and additionalProperties schemas are such schemas too
RECURSIVE IsPlainSchema(_)
IsPlainSchema(schema) ==
    /\ schema.ref = None
    /\ KeywordVariants(schema) = <<>>
    /\ schema.items # None => IsPlainSchema(schema.items[1])
    /\ (schema.additionalProperties # None /\ ~schema.additionalProperties[1].isBool)
        => IsPlainSchema(schema.additionalProperties[1].schema[1])

\* `additionalProperties` is a schema
HasAdditionalSchema(schema) ==
    schema.additionalProperties # None /\ ~schema.additionalProperties[1].isBool

\* the type the claim gives to such a schema, by its order of priority
RECURSIVE PriorityType(_)
PriorityType(schema) ==
    IF EffectiveType(schema) = Some("array")
    THEN ArrayType(IF schema.items = None THEN AnyType(FALSE)
                   ELSE PriorityType(schema.items[1]),
                   NullableOf(schema))
    ELSE IF \/ EffectiveType(schema) = Some("object")
            \/ schema.properties # None
            \/ schema.additionalProperties # None
    THEN MapType(IF HasAdditionalSchema(schema)
                 THEN PriorityType(schema.additionalProperties[1].schema[1])
                 ELSE AnyType(FALSE),
                 NullableOf(schema))
    ELSE IF EffectiveType(schema) \in {Some("integer"), Some("number"), Some("string")}
    THEN [TypeRef(ScalarKind(EffectiveType(schema)[1])) EXCEPT
            !.format = schema.format, !.nullable = NullableOf(schema)]
    ELSE IF EffectiveType(schema) = Some("boolean") THEN BooleanType(NullableOf(schema))
    ELSE AnyType(NullableOf(schema))

\* C25: a schema that is no reference and has no oneOf/anyOf/allOf entries
\* resolves, in this order of priority: with effective type "array" to
\* Array of its resolved items (Any when there are none), whatever it
\* declares as properties or additionalProperties; otherwise with effective
\* type "object", or declared properties, or declared additionalProperties,
\* to Map, of Any when additionalProperties is undeclared or a boolean and of
\* the resolved additionalProperties schema otherwise, whatever scalar type
\* it names; otherwise to the scalar of integer, number or string with the
\* declared format, to Boolean for boolean, and to Any for anything else.
C25_TypePriority ==
    \A r \in DOMAIN results : \A i \in DOMAIN results[r].models :
        \A j \in DOMAIN results[r].models[i].fields :
            IsPlainSchema(PropertySchema(document, results[r].models[i].name, j))
                => results[r].models[i].fields[j].type
                     = PriorityType(PropertySchema(document, results[r].models[i].name, j))

\* a property of type ["null", "array"] that declares properties and an
\* additionalProperties schema became a nullable Array of its items
C25_Witness ==
    /\ document \in PriorityDocuments
    /\ results # <<>>
    /\ PropertySchema(document, NameM, 1).type = Some(TypeList(<<"null", "array">>))
    /\ PropertySchema(document, NameM, 1).properties = Some(<<Item("q", StringSchema)>>)
    /\ HasAdditionalSchema(PropertySchema(document, NameM, 1))
    /\ PropertySchema(document, NameM, 1).items # None
    /\ results[1].models[1].fields[1].type
         = ArrayType(ScalarType("integer", Some("int64"), TRUE), TRUE)

\* ------------------------------------------------------------------- C26
\* a text with every run of non-alphanumeric characters replaced by one "_",
\* upper-cased, and without "_" at either end
RunsReplaced(text) ==
    Concat([i \in DOMAIN text |->
               IF IsAlnum(text[i]) THEN <<UpperChar(text[i])>>
               ELSE IF i > 1 /\ ~IsAlnum(text[i - 1]) THEN <<>>
               ELSE <<"_">>])

Trimmed(text) == Strip(RunsReplaced(text), "_")

\* the name the derivation gives to a text at a 0-based position of the list
NameOfText(text, index) ==
    IF Trimmed(text) = <<>> THEN <<"V", "A", "L", "U", "E", "_">> \o IntToStr(index)
    ELSE IF IsDigit(Trimmed(text)[1]) THEN <<"V", "A", "L", "U", "E", "_">> \o Trimmed(text)
    ELSE Trimmed(text)

\* the enum schemas of the document with their literals
EnumLiterals(spec) ==
    {OrEmpty(_extract_component_schemas(spec)[i].value.enum)
     : i \in DOMAIN _extract_component_schemas(spec)}

\* the members of every converted enum carry the names that derived gives to
\* the literals: exactly, unless an earlier member has that name already, and
\* then followed by the suffixes that keep the names distinct
MemberNamesAre(api_schema, spec, derived(_, _)) ==
    \A e \in DOMAIN api_schema.enums :
        \A k \in DOMAIN api_schema.enums[e].values :
            /\ StartsWith(api_schema.enums[e].values[k].name,
                          derived(api_schema.enums[e].values[k].value, k - 1))
            /\ (\A j \in 1..(k - 1) :
                   api_schema.enums[e].values[j].name
                     # derived(api_schema.enums[e].values[k].value, k - 1))
                => api_schema.enums[e].values[k].name
                     = derived(api_schema.enums[e].values[k].value, k - 1)

\* the derivation as the claim states it: from the literal, whatever its type
NameOfLiteral(value, index) == NameOfText(LiteralText(value), index)

\* the derivation from string literals only: any other literal is named by
\* its position
NameOfStringLiteral(value, index) ==
    IF value.t = "str" THEN NameOfText(value.s, index)
    ELSE <<"V", "A", "L", "U", "E", "_">> \o IntToStr(index)

\* C26 as stated: the member name of every enum literal, string, number or
\* boolean, is the literal with every run of non-alphanumeric characters
\* replaced by "_", trimmed of "_" and upper-cased, VALUE_<index> when that
\* is empty, and prefixed with VALUE_ when it starts with a digit.
C26_MemberNameOfLiteral ==
    \A r \in DOMAIN results :
        /\ MemberNamesAre(results[r], document, NameOfLiteral)
        /\ \A literals \in EnumLiterals(document) : \A k \in DOMAIN literals :
            _to_enum_member_name(literals[k], k - 1) = NameOfLiteral(literals[k], k - 1)

\* C26, amended: the member name of a string literal is the literal with
\* every run of non-alphanumeric characters replaced by "_", trimmed of "_"
\* and upper-cased, VALUE_<index> when that is empty, and prefixed with
\* VALUE_ when it starts with a digit; the member name of a literal that is
\* not a string (a number, a boolean) is VALUE_<index>.
C26_MemberNameOfString ==
    \A r \in DOMAIN results :
        /\ MemberNamesAre(results[r], document, NameOfStringLiteral)
        /\ \A literals \in EnumLiterals(document) : \A k \in DOMAIN literals :
            _to_enum_member_name(literals[k], k - 1)
                = NameOfStringLiteral(literals[k], k - 1)

\* the enum ["-b .c!", true, 1] was converted: its members are B_C, VALUE_1
\* and VALUE_2
C26_Witness ==
    /\ results # <<>>
    /\ document \in EnumDocuments
    /\ Len(results[1].enums) = 1
    /\ [k \in DOMAIN results[1].enums[1].values |-> results[1].enums[1].values[k].value]
         = <<JStr(<<"-", "b", " ", ".", "c", "!">>), JBool(TRUE), JInt(1)>>
    /\ [k \in DOMAIN results[1].enums[1].values |-> results[1].enums[1].values[k].name]
         = <<<<"B", "_", "C">>, <<"V", "A", "L", "U", "E", "_", "1">>,
             <<"V", "A", "L", "U", "E", "_", "2">>>>

\* ------------------------------------------------------------------- C27
\* the declared operations with one parameter of their own and none at the
\* level of the path
WithOneParameter(spec) ==
    {declared \in DeclaredOperations(spec) :
        /\ Len(OrEmpty(declared.operation.parameters)) = 1
        /\ declared.path_level = <<>>}

\* the type of the primary media type of a content map that has entries
PrimaryType(content, spec) ==
    _to_type_ref(PrimaryEntry(content).value.schema, ContextOf(spec))

\* a bare reference leaves no parameter; a kept parameter has the type that
\* `expected` gives for it
ParameterTypesAre(api_schema, spec, expected(_)) ==
    \A declared \in WithOneParameter(spec) :
        LET raw == declared.operation.parameters[1][1]
            converted == TheOperation(api_schema, declared).parameters
        IN  /\ raw.ref # None => converted = <<>>
            /\ IsKept(raw) => /\ Len(converted) = 1
                              /\ converted[1].type = expected(raw)

\* the source of the type as the claim states it: the inline schema whenever
\* there is one, the content map only when there is none
TypeOfDeclaredSchema(raw) ==
    IF raw.schema # None THEN _to_type_ref(raw.schema, ContextOf(document))
    ELSE IF OrEmpty(raw.content) # <<>> THEN PrimaryType(raw.content[1], document)
    ELSE AnyType(FALSE)

\* the source of the type, amended: the inline schema when it resolves to a
\* type other than Any, else the content map when it has entries
TypeOfResolvedSchema(raw) ==
    IF /\ raw.schema # None
       /\ _to_type_ref(raw.schema, ContextOf(document)).kind # "Any"
    THEN _to_type_ref(raw.schema, ContextOf(document))
    ELSE IF OrEmpty(raw.content) # <<>> THEN PrimaryType(raw.content[1], document)
    ELSE _to_type_ref(raw.schema, ContextOf(document))

\* C27 as stated: a parameter with no inline schema and a content map takes
\* its type from the schema of the primary media type; a parameter with an
\* inline schema takes its type from that schema, whatever its content map; a
\* parameter that is a bare reference leaves no Parameter in the merged list.
C27_TypeFromDeclaredSchema ==
    \A r \in DOMAIN results : ParameterTypesAre(results[r], document, TypeOfDeclaredSchema)

\* C27, amended: a parameter whose inline schema resolves to a type other
\* than Any takes its type from that schema, whatever its content map; a
\* parameter with no inline schema, or with one that resolves to Any, takes
\* its type from the schema of the primary media type when its content map
\* has entries, and the type of its own schema otherwise; a parameter that is
\* a bare reference leaves no Parameter in the merged list.
C27_TypeFromResolvedSchema ==
    \A r \in DOMAIN results : ParameterTypesAre(results[r], document, TypeOfResolvedSchema)

\* a parameter was converted that has no schema and a content map of two
\* media types, application/json second: it has the type of that entry
C27_Witness ==
    /\ results # <<>>
    /\ document \in ParameterContentDocuments
    /\ \E declared \in WithOneParameter(document) :
        LET raw == declared.operation.parameters[1][1]
            converted == TheOperation(results[1], declared).parameters
        IN  /\ IsKept(raw) /\ raw.schema = None
            /\ Len(OrEmpty(raw.content)) = 2
            /\ raw.content[1][2].key = Json
            /\ raw.content[1][1].value.schema = Some(StringSchema)
            /\ raw.content[1][2].value.schema = Some(NullableInteger)
            /\ Len(converted) = 1
            /\ converted[1].type.kind = "Integer"

\* ------------------------------------------------------------------- C28
\* the entries that are not dropped, and the keys they declare
KeptRaw(raw) == SelectSeq(raw, IsKept)

KeptKeys(raw) == {RawKeyOf(KeptRaw(raw)[i]) : i \in DOMAIN KeptRaw(raw)}

\* the last kept entry that declares the key
LastKept(raw, key) ==
    KeptRaw(raw)[CHOOSE i \in DOMAIN KeptRaw(raw) :
                    /\ RawKeyOf(KeptRaw(raw)[i]) = key
                    /\ \A j \in (i + 1)..Len(KeptRaw(raw)) : RawKeyOf(KeptRaw(raw)[j]) # key]

\* C28: the parameters of every converted operation hold no (name, location)
\* key twice and are as many as the distinct keys of the path-level and
\* operation-level entries that are not dropped; every kept key is there,
\* with the value of the last kept entry that declares it, whatever dropped
\* entries stand before, between or after the kept ones.
C28_UniqueParameterKeys ==
    \A r \in DOMAIN results : \A declared \in DeclaredOperations(document) :
        LET parameters == TheOperation(results[r], declared).parameters
            keys == [i \in DOMAIN parameters |-> KeyOf(parameters[i])]
        IN  /\ NoRepeats(keys)
            /\ Len(parameters) = Cardinality(KeptKeys(AllRaw(declared)))
            /\ Range(keys) = KeptKeys(AllRaw(declared))
            /\ \A i \in DOMAIN parameters :
                Some(parameters[i]) =
                    _convert_parameter(LastKept(AllRaw(declared), keys[i]),
                                       ContextOf(document))

\* an operation was converted whose entries are a kept one, a bare reference
\* with the same key, and a second kept one with that key and another schema:
\* one parameter is left, of the second kept entry
C28_Witness ==
    /\ results # <<>>
    /\ \E declared \in DeclaredOperations(document) :
        LET raw == AllRaw(declared)
            parameters == TheOperation(results[1], declared).parameters
        IN  /\ Len(raw) = 3
            /\ IsKept(raw[1]) /\ ~IsKept(raw[2]) /\ IsKept(raw[3])
            /\ raw[2].ref # None
            /\ raw[2].name = raw[1].name /\ raw[2].in_ = raw[1].in_
            /\ RawKeyOf(raw[1]) = RawKeyOf(raw[3])
            /\ raw[1].schema # raw[3].schema
            /\ Len(parameters) = 1
            /\ parameters[1].type = _to_type_ref(raw[3].schema, ContextOf(document))

\* ------------------------------------------------------------------- C29
\* a path item or webhook entry that declares no operation at all
DeclaresNone(path_item) ==
    path_item.slots = <<>> /\ OrEmpty(path_item.additionalOperations) = <<>>

NoUpperCase(text) == \A i \in DOMAIN text : ~IsUpper(text[i])

\* every operation of the list is of the container keyed `key` and has a
\* lower-case method
OperationsBelong(operations, key) ==
    /\ operations # <<>>
    /\ \A o \in DOMAIN operations :
        /\ operations[o].path = key
        /\ NoUpperCase(operations[o].method)

\* the keys of the items that declare no operation
EmptyKeys(items) == {items[i].key : i \in {j \in DOMAIN items : DeclaresNone(items[j].value)}}

\* C29: every Endpoint and every Webhook of a returned APISchema has at least
\* one operation; a path item or webhook entry that declares neither a fixed
\* method nor an additional operation leaves no Endpoint or Webhook; the path
\* of every Operation is the path of its Endpoint or the name of its Webhook,
\* and its method is lower-case.
C29_NoEmptyContainers ==
    \A r \in DOMAIN results :
        /\ \A e \in DOMAIN results[r].endpoints :
            /\ OperationsBelong(results[r].endpoints[e].operations, results[r].endpoints[e].path)
            /\ results[r].endpoints[e].path \notin EmptyKeys(OrEmpty(document.paths))
        /\ \A w \in DOMAIN results[r].webhooks :
            /\ OperationsBelong(results[r].webhooks[w].operations, results[r].webhooks[w].name)
            /\ results[r].webhooks[w].name \notin EmptyKeys(OrEmpty(document.webhooks))

\* a document was converted whose paths are one path item with no operation
\* and one with a fixed method and the additional operations Purge and COPY:
\* one endpoint is left, with the methods delete, purge and copy
C29_Witness ==
    /\ results # <<>>
    /\ Len(OrEmpty(document.paths)) = 2
    /\ \E i, j \in DOMAIN OrEmpty(document.paths) :
        /\ DeclaresNone(document.paths[1][i].value)
        /\ Len(OrEmpty(document.paths[1][j].value.additionalOperations)) = 2
        /\ Len(results[1].endpoints) = 1
        /\ results[1].endpoints[1].path = document.paths[1][j].key
        /\ {results[1].endpoints[1].operations[o].method
            : o \in DOMAIN results[1].endpoints[1].operations}
             = {Delete, Lower(Purge), Lower(Copy)}

\* ------------------------------------------------------------------- C30
\* a is a proper initial part of b: the node at b lies beneath the node at a
Beneath(a, b) == Len(a) < Len(b) /\ IsPrefix(a, b)

\* the handler of the class of the node makes no call of generic_visit
Prunes(handlers, kind) == DictHas(handlers, kind) /\ DictGet(handlers, kind) = "prune"
Recurses(handlers, kind) == DictHas(handlers, kind) /\ DictGet(handlers, kind) = "recurse"

\* the nodes that are not beneath a node whose handler prunes
Unpruned(state, paths) ==
    {p \in paths :
        \A q \in paths : Beneath(q, p) => ~Prunes(state.handlers, NodeAt(state.root, q).kind)}

\* the entries of a log with a given mark for a given path
EntriesOf(log, what, path) ==
    {i \in DOMAIN log : log[i].what = what /\ log[i].path = path}

\* the entry that records a call of visit beneath the node of entry i
IsBeneath(log, i, j) == log[j].what = "visit" /\ Beneath(log[i].path, log[j].path)

PruningRule(state, paths) ==
    \* a handler that does not recurse: it runs once for the node, and no node
    \* beneath the node is visited, so no handler runs for one
    /\ \A i \in VisitEntries(state.log) :
        Prunes(state.handlers, state.log[i].kind) =>
            /\ \A j \in DOMAIN state.log : ~Beneath(state.log[i].path, state.log[j].path)
            /\ Cardinality(EntriesOf(state.log, "before", state.log[i].path)) <= 1
            /\ HasReturned(state, i) =>
                /\ Cardinality(EntriesOf(state.log, "before", state.log[i].path)) = 1
                /\ Cardinality(EntriesOf(state.log, "after", state.log[i].path)) = 1
    \* a handler that recurses: what lies beneath the node is visited after
    \* the code before the call and before the code after it, and each child
    \* exactly once
    /\ \A i \in VisitEntries(state.log) :
        Recurses(state.handlers, state.log[i].kind) =>
            /\ \A j \in DOMAIN state.log :
                IsBeneath(state.log, i, j) =>
                    /\ \E b \in EntriesOf(state.log, "before", state.log[i].path) : b < j
                    /\ \A a \in EntriesOf(state.log, "after", state.log[i].path) : j < a
            /\ HasReturned(state, i) =>
                /\ Cardinality(EntriesOf(state.log, "before", state.log[i].path)) = 1
                /\ Cardinality(EntriesOf(state.log, "after", state.log[i].path)) = 1
                /\ EachChildOnce(VisitsOfChildren(state.log, i), state.log[i].path,
                                 Len(ChildNodes(NodeAt(state.root, state.log[i].path))))
    \* no node is visited twice, and when visit(root) has returned the nodes
    \* visited are those not beneath a pruned node: siblings of a pruned
    \* node and their subtrees are among them
    /\ \A i, j \in VisitEntries(state.log) :
        state.log[i].path = state.log[j].path => i = j
    /\ Finished(state) =>
        {state.log[i].path : i \in VisitEntries(state.log)} = Unpruned(state, paths)

\* C30: when the handler registered for a class does not call the default
\* recursion, it runs once for each visited node of the class and nothing
\* beneath such a node is visited, while sibling subtrees still are; when it
\* does call the default recursion, the nodes beneath are visited exactly
\* once, after the handler's code before the call and before its code after
\* the call.
C30_VisitorPruning ==
    walk.pc = "walking" => PruningRule(walk, PathsFrom(walk.root, <<>>))

\* a visitor whose Model handler prunes and whose Operation handler recurses
\* has returned from the enriched IR: both models were handled and no field
\* was visited, the enums next to them were visited, and the parameters of
\* an operation were visited between the two parts of its handler
C30_Witness ==
    /\ Finished(walk)
    /\ walk.handlers = Handlers(<<"Model", "Operation">>, <<"prune", "recurse">>)
    /\ Cardinality({i \in DOMAIN walk.log :
                      walk.log[i].what = "after" /\ walk.log[i].kind = "Model"}) = 2
    /\ \A i \in DOMAIN walk.log : walk.log[i].kind # "Field"
    /\ \E i \in DOMAIN walk.log : walk.log[i].kind = "EnumValue"
    /\ \E b, j, a \in DOMAIN walk.log :
        /\ b < j /\ j < a
        /\ walk.log[b].what = "before" /\ walk.log[b].kind = "Operation"
        /\ walk.log[j].what = "visit" /\ walk.log[j].kind = "Parameter"
        /\ walk.log[a].what = "after" /\ walk.log[a].path = walk.log[b].path

====
